---- MODULE Spec2Model ----
(***************************************************************************)
(* A model of the non-GUI core of the animeme editor:                      *)
(*   - the keyframe store (src/keyframes.py),                              *)
(*   - the spiral traversal and render_spiral (src/templates.py),          *)
(*   - the layer set add/delete handlers of MainWindow (src/animator.py).  *)
(*                                                                         *)
(* Python's None is the empty tuple; an int v that may be None is the      *)
(* one-element tuple <<v>>.  A position argument is either None or a pair  *)
(* <<x, y>> of such optional ints.                                         *)
(***************************************************************************)
EXTENDS Integers, Sequences, FiniteSets, TLC

VARIABLES
    keyframes,      \* KeyframeCollection._keyframes of one store
    last,           \* the last call made on the store, with its outcome
    seq_len,        \* len(sequence) of the sequence being rendered
    render_layers,  \* the keys of render_options, in dict order
    spiral,         \* the state of the generator returned by spiral()
    pc,             \* position of render_spiral: "idle", "frame", "done"
    cur_frame,      \* render_spiral's loop variable frame_ind
    cur_layer,      \* index in render_layers of the next layer to draw
    start_ind,      \* render_spiral's argument current_ind
    rendered,       \* the calls render_spiral has made so far, in order:
                    \* <<frame_ind, id>> for each render_frame
    templates,      \* MemeAnimationTemplate.templates_dict, ids in dict order
    selected,       \* id of MainWindow.selected_text_template
    current_frame_index, \* MainWindow.current_frame_index
    ui_last,        \* the last editor handler that ran
    meme_template,  \* a MemeAnimationTemplate: its templates in dict order
    serialized,     \* what meme_template.serialize() last returned
    restored,       \* what MemeAnimationTemplate.deserialize last returned
    gif_seq,        \* a GifSequence: its _frames_array and _durations_array
    gif_left,       \* the GifSequence held as left operand, and where from
    gif_right,      \* the GifSequence held as right operand, and where from
    gif_sum,        \* gif_left + gif_right, once evaluated for these operands
    tracker_mode,   \* FramesViewer.tracker_mode
    tracker,        \* the selected template's Tracker: begin, end, failed
    track_last,     \* the handler that ran last, when it was track_frame: the
                    \* call and its outcome; the number of track_frame calls
    form,           \* FramePropertiesPanel: is_enabled, the toggle button's
                    \* checked state and the texts of the four line edits
    ed_last,        \* the handler of the keyframe editor that ran last, and
                    \* the number of Add Keyframe clicks so far
    text_template_to_rect, \* FramesViewer.text_template_to_rect, in dict order
    click_last,     \* the last handler of the viewer and layer buttons
    panel,          \* TextTemplatePropertiesPanel: the text, the stroke width
                    \* text and the three colours of its widgets
    status_message, \* the message the status bar shows
    panel_last      \* the last handler of the properties panel or of Save

vars == <<keyframes, last, seq_len, render_layers, spiral, pc, cur_frame,
          cur_layer, start_ind, rendered, templates, selected,
          current_frame_index, ui_last, meme_template, serialized, restored,
          gif_seq, gif_left, gif_right, gif_sum, tracker_mode, tracker,
          track_last, form, ed_last, text_template_to_rect, click_last,
          panel, status_message, panel_last>>

kfVars == <<keyframes, last>>
spiralVars == <<seq_len, render_layers, spiral, pc, cur_frame, cur_layer,
                start_ind, rendered>>
uiVars == <<templates, selected, current_frame_index, ui_last>>
serVars == <<meme_template, serialized, restored>>

\* the variables of the parts of the program the first three parts leave alone
gifVars == <<gif_seq, gif_left, gif_right, gif_sum>>
trackVars == <<tracker_mode, tracker, track_last>>
edVars == <<form, ed_last>>
clickVars == <<text_template_to_rect, click_last>>
panelVars == <<panel, status_message, panel_last>>
extVars == <<serVars, gifVars, trackVars, edVars, clickVars, panelVars>>

-----------------------------------------------------------------------------
(* Bounds and input sets *)

MaxFrame == 9

FrameInds == 0 .. MaxFrame

\* longest sequence handed to render_spiral
MaxLen == 10

\* most layers named in render_options
MaxRenderLayers == 2

\* most layers the editor is driven to
MaxLayers == 4

\* the frame indices at which keyframes are inserted
KeyframeInds == {2, 5, 24}

\* the frame indices interpolate is asked for: every frame up to MaxFrame,
\* the frame midway between the keyframes at 2 and 24, the last keyframe and
\* the frame after it
QueryInds == FrameInds \cup {13, 24, 25}

None == <<>>

Some(v) == <<v>>

Val(o) == o[1]

\* coordinates handed to the constructor: a position is None or a pair, as the
\* Keyframe of the spec has it; <<None, None>> is the only position
\* the constructor accepts that leaves x and y undefined (a position with
\* one of the two None makes interpolate raise: see QueryStores)
CoordPairs == {<<0, 0>>, <<10, 10>>, <<50, 60>>, <<-10, 4>>}

PositionArgs == {None, <<None, None>>} \cup {<<Some(p[1]), Some(p[2])>> : p \in CoordPairs}

TextSizeArgs == {None, Some(20), Some(30)}

-----------------------------------------------------------------------------
(* src/keyframes.py *)

DEFAULT_POSITION == <<20, 20>>

DEFAULT_TEXT_SIZE_margin == DEFAULT_POSITION[1]

DEFAULT_TEXT_SIZE == 50

\* TextAnimationKeyframe.__init__: "self.x, self.y = position" unpacks the
\* argument, which raises TypeError when it is None
TextAnimationKeyframe(frame_ind, position, text_size) ==
    IF position = None
    THEN [raised |-> "TypeError", kf |-> None]
    ELSE [raised |-> "",
          kf |-> Some([frame_ind |-> frame_ind, x |-> position[1], y |-> position[2],
                       text_size |-> text_size])]

\* the position property: always a pair, never None
position(kf) == <<kf.x, kf.y>>

update_keyframe(self, new_keyframe) ==
    LET s1 == IF position(new_keyframe) # None
              THEN [self EXCEPT !.x = position(new_keyframe)[1],
                                !.y = position(new_keyframe)[2]]
              ELSE self
    IN  IF new_keyframe.text_size # None
        THEN [s1 EXCEPT !.text_size = new_keyframe.text_size]
        ELSE s1

\* Keyframe.__lt__
Lt(a, b) == a.frame_ind < b.frame_ind

\* bisect.bisect_left(a, x) with 0-based lo and hi
RECURSIVE bisect_loop(_, _, _, _)
bisect_loop(a, x, lo, hi) ==
    IF lo < hi
    THEN LET mid == (lo + hi) \div 2
         IN  IF Lt(a[mid + 1], x)
             THEN bisect_loop(a, x, mid + 1, hi)
             ELSE bisect_loop(a, x, lo, mid)
    ELSE lo

bisect_append(a, x) == Len(a)

bisect_left(a, x) == bisect_loop(a, x, 0, Len(a))

\* list.insert(i, v) with 0-based i
ListInsert(a, i, v) == SubSeq(a, 1, i) \o <<v>> \o SubSeq(a, i + 1, Len(a))

insert_keyframe(kfs, keyframe) ==
    LET insertion_index == bisect_left(kfs, keyframe)
    IN  IF insertion_index < Len(kfs)
           /\ keyframe.frame_ind = kfs[insertion_index + 1].frame_ind
        THEN [kfs EXCEPT ![insertion_index + 1] = update_keyframe(@, keyframe)]
        ELSE ListInsert(kfs, insertion_index, keyframe)

\* int(v) of a float whose value is the fraction num/den, den > 0: truncation
PyInt_floor(num, den) == num \div den

PyInt(num, den) == IF num >= 0 THEN num \div den ELSE -((-num) \div den)

Abs(n) == IF n < 0 THEN -n ELSE n

RECURSIVE Pow2(_)
Pow2(n) == IF n = 0 THEN 1 ELSE 2 * Pow2(n - 1)

\* floor(log2(n / d)) for positive integers n and d: the exponent of the
\* double nearest to n / d
RECURSIVE floor_log2(_, _)
floor_log2(n, d) ==
    IF n >= 2 * d THEN floor_log2(n, 2 * d) + 1
    ELSE IF n < d THEN floor_log2(2 * n, d) - 1
    ELSE 0

\* 2^t mod d
RECURSIVE pow2mod(_, _)
pow2mod(t, d) == IF t = 0 THEN 1 % d ELSE (2 * pow2mod(t - 1, d)) % d

\* lhs * 2^sh > rhs
exceeds(lhs, rhs, sh) ==
    IF sh >= 0 THEN lhs * Pow2(sh) > rhs ELSE lhs > rhs * Pow2(-sh)

\* the double slope = fl(a / dx), a and dx positive, e = floor(log2(a / dx)):
\* slope = a / dx + c / (dx * 2^(52 - e)) for the c returned, which is the
\* remainder of a * 2^(52 - e) by dx taken to the nearest multiple
slope_error(a, dx, e) ==
    LET rho == ((a % dx) * pow2mod(52 - e, dx)) % dx
    IN  IF 2 * rho < dx THEN -rho ELSE dx - rho

\* the double fl(slope * k) where a * k / dx is the integer m of exponent L:
\* it is m, or m plus or minus the power of two 2^exp
product_error(k, c, dx, e, m, L) ==
    IF c > 0
    THEN IF exceeds(k * c, dx, 1 + e - L)
         THEN [sign |-> 1, exp |-> L - 52] ELSE [sign |-> 0, exp |-> 0]
    ELSE IF c < 0
    THEN IF m = Pow2(L)
         THEN IF exceeds(k * (-c), dx, 2 + e - L)
              THEN [sign |-> -1, exp |-> L - 53] ELSE [sign |-> 0, exp |-> 0]
         ELSE IF exceeds(k * (-c), dx, 1 + e - L)
              THEN [sign |-> -1, exp |-> L - 52] ELSE [sign |-> 0, exp |-> 0]
    ELSE [sign |-> 0, exp |-> 0]

\* the double fl(v + sign * 2^exp) for the integer v: the sign of its
\* difference to v, which is 0 when the sum rounds back to v
sum_side(v, sign, exp) ==
    IF sign = 0 THEN 0
    ELSE IF v = 0 THEN sign
    ELSE LET Lv == floor_log2(Abs(v), 1)
             toward_zero == (sign < 0) = (v > 0)
             gap == IF toward_zero /\ Abs(v) = Pow2(Lv) THEN Lv - 53 ELSE Lv - 52
         IN  IF exp >= gap THEN sign ELSE 0

\* slope * (x - xp[j]) + fp[j] with slope = (fp[j+1] - fp[j]) / (xp[j+1] - xp[j])
\* as numpy computes it in IEEE doubles, for the segment (x0, y0) - (x1, y1)
\* and x0 < x < x1, all integers: where the value of the line is an integer,
\* the sign of (the double - that integer); 0 where it is none, the double
\* then lying nearer to the line's value than to any integer
rounding_side(x0, y0, x1, y1, x) ==
    LET dy == y1 - y0
        dx == x1 - x0
        k  == x - x0
    IN  IF dy = 0 \/ (Abs(dy) * k) % dx # 0 THEN 0
        ELSE LET sg == IF dy > 0 THEN 1 ELSE -1
                 m  == (Abs(dy) * k) \div dx
                 e  == floor_log2(Abs(dy), dx)
                 L  == floor_log2(m, 1)
                 d  == product_error(k, slope_error(Abs(dy), dx, e), dx, e, m, L)
             IN  sum_side(sg * m + y0, sg * d.sign, d.exp)

\* np.interp(x, xp, fp) for the points pts = <<<<xp_1, fp_1>>, ...>>, xp
\* increasing; the double returned is given as <<num, den, side>>: the
\* fraction num/den is the value of the line and side the sign of (the
\* double - num/den) where num/den is an integer
RECURSIVE np_search(_, _, _)
np_search(x, pts, j) ==
    IF j < Len(pts) /\ pts[j + 1][1] <= x THEN np_search(x, pts, j + 1) ELSE j

np_interp_swapped_ends(x, pts) ==
    IF x > pts[Len(pts)][1] THEN <<pts[1][2], 1, 0>>
    ELSE IF x < pts[1][1] THEN <<pts[Len(pts)][2], 1, 0>>
    ELSE LET j == np_search(x, pts, 1)
         IN  IF j = Len(pts) \/ pts[j][1] = x
             THEN <<pts[j][2], 1, 0>>
             ELSE <<pts[j][2] * (pts[j + 1][1] - pts[j][1])
                      + (pts[j + 1][2] - pts[j][2]) * (x - pts[j][1]),
                    pts[j + 1][1] - pts[j][1],
                    rounding_side(pts[j][1], pts[j][2], pts[j + 1][1], pts[j + 1][2], x)>>

np_interp(x, pts) ==
    IF x > pts[Len(pts)][1] THEN <<pts[Len(pts)][2], 1, 0>>
    ELSE IF x < pts[1][1] THEN <<pts[1][2], 1, 0>>
    ELSE LET j == np_search(x, pts, 1)
         IN  IF j = Len(pts) \/ pts[j][1] = x
             THEN <<pts[j][2], 1, 0>>
             ELSE <<pts[j][2] * (pts[j + 1][1] - pts[j][1])
                      + (pts[j + 1][2] - pts[j][2]) * (x - pts[j][1]),
                    pts[j + 1][1] - pts[j][1],
                    rounding_side(pts[j][1], pts[j][2], pts[j + 1][1], pts[j + 1][2], x)>>

\* [(keyframe.frame_ind, keyframe.<field>) for keyframe in self
\*  if keyframe.<field> is not None]
RECURSIVE Gather(_, _)
Gather(kfs, field) ==
    IF kfs = <<>> THEN <<>>
    ELSE LET k == Head(kfs)
         IN  (IF k[field] # None THEN <<<<k.frame_ind, Val(k[field])>>>> ELSE <<>>)
             \o Gather(Tail(kfs), field)

\* int(np.interp(...)): a double next to the integer num/den truncates as
\* the fraction (num + side)/den does
InterpField(frame_ind, pts) ==
    LET q == np_interp(frame_ind, pts) IN PyInt(q[1] + q[3], q[2])

\* what interpolate gives when its assert fails
AssertionError == [raised |-> "AssertionError"]

interpolate_y_from_x(kfs, frame_ind) ==
    LET all_position_x == Gather(kfs, "x")
        all_position_y == Gather(kfs, "y")
        all_text_size  == Gather(kfs, "text_size")
    IN  IF Len(all_position_x) # Len(all_position_y)
        THEN AssertionError
        ELSE [frame_ind |-> frame_ind,
              x |-> IF all_position_x # <<>>
                    THEN Some(InterpField(frame_ind, all_position_x))
                    ELSE Some(DEFAULT_POSITION[1]),
              y |-> IF all_position_x # <<>>
                    THEN Some(InterpField(frame_ind, all_position_x))
                    ELSE Some(DEFAULT_POSITION[2]),
              text_size |-> IF all_text_size # <<>>
                            THEN Some(InterpField(frame_ind, all_text_size))
                            ELSE Some(DEFAULT_TEXT_SIZE)]

\* TextAnimationKeyframeCollection.interpolate: the assert fails when the
\* keyframes that define x are not as many as those that define y, which
\* takes a keyframe with one of the two None (the constructor and
\* deserialize accept such a position); the result is then AssertionError
\* in place of a keyframe
interpolate(kfs, frame_ind) ==
    LET all_position_x == Gather(kfs, "x")
        all_position_y == Gather(kfs, "y")
        all_text_size  == Gather(kfs, "text_size")
    IN  IF Len(all_position_x) # Len(all_position_y)
        THEN AssertionError
        ELSE [frame_ind |-> frame_ind,
              x |-> IF all_position_x # <<>>
                    THEN Some(InterpField(frame_ind, all_position_x))
                    ELSE Some(DEFAULT_POSITION[1]),
              y |-> IF all_position_x # <<>>
                    THEN Some(InterpField(frame_ind, all_position_y))
                    ELSE Some(DEFAULT_POSITION[2]),
              text_size |-> IF all_text_size # <<>>
                            THEN Some(InterpField(frame_ind, all_text_size))
                            ELSE Some(DEFAULT_TEXT_SIZE)]

-----------------------------------------------------------------------------
(* The keyframe store driven through its two operations *)

NoCall == [op |-> "none", frame_ind |-> 0, position |-> None, text_size |-> None,
           raised |-> "", result |-> None]

KfIdle ==
    /\ seq_len = 0 /\ render_layers = <<>> /\ spiral = None /\ pc = "idle"
    /\ cur_frame = 0 /\ cur_layer = 0 /\ start_ind = 0 /\ rendered = <<>>

UiIdle ==
    /\ templates = <<>> /\ selected = None /\ current_frame_index = 0
    /\ ui_last = [op |-> "none", count_before |-> 0]

SerIdle == meme_template = <<>> /\ serialized = None /\ restored = None

GifIdle == gif_seq = <<>> /\ gif_left = None /\ gif_right = None /\ gif_sum = None

\* QtCore.QPoint()
QPoint0 == <<0, 0>>

\* Tracker.__init__; kcf: _tracker is not None
NewTracker == [begin |-> QPoint0, end |-> QPoint0, kcf |-> FALSE, failed |-> FALSE]

NoTrack == [outcome |-> "none", frame_diff |-> 0, ok |-> TRUE, delta |-> QPoint0,
            from_frame |-> 0, to_frame |-> 0, reference |-> QPoint0, steps |-> 0,
            region |-> "none", replaced |-> None]

TrackIdle == tracker_mode = FALSE /\ tracker = NewTracker /\ track_last = NoTrack

\* the text of a QLineEdit: empty, the decimal text of an integer, or
\* something int() rejects
Empty == [kind |-> "empty", val |-> 0]

Txt(n) == [kind |-> "int", val |-> n]

Bad == [kind |-> "bad", val |-> 0]

NoForm == [is_enabled |-> FALSE, checked |-> FALSE, frameEdit |-> Empty,
           xEdit |-> Empty, yEdit |-> Empty, textSizeEdit |-> Empty]

NoEdit == [op |-> "none", frame_ind |-> 0, raised |-> "", adds |-> 0]

EdIdle == form = NoForm /\ ed_last = NoEdit

NoClick == [op |-> "none", pos |-> QPoint0, presses |-> 0]

ClickIdle == text_template_to_rect = <<>> /\ click_last = NoClick

\* TextTemplatePropertiesPanel.__init__: white text, no background, black
\* stroke of width "2"; the text is set by the first refresh
NewPanel == [textValue |-> <<>>, strokeWidthEdit |-> Txt(2), textColorButton |-> Some("#ffffff"),
             backgroundColorButton |-> None, strokeColorButton |-> Some("#000000")]

NoStatus == ""

NoPanelCall == [op |-> "none", raised |-> "", json_written |-> FALSE, gif_written |-> FALSE]

PanelIdle == panel = NewPanel /\ status_message = NoStatus /\ panel_last = NoPanelCall

ExtIdle == SerIdle /\ GifIdle /\ TrackIdle /\ EdIdle /\ ClickIdle /\ PanelIdle

InitKeyframes ==
    /\ keyframes = <<>>
    /\ last = NoCall
    /\ KfIdle
    /\ UiIdle
    /\ ExtIdle

\* collection.insert_keyframe(TextAnimationKeyframe(frame_ind, position, text_size))
InsertKeyframe(frame_ind, pos, text_size) ==
    LET made == TextAnimationKeyframe(frame_ind, pos, text_size)
    IN  /\ last' = [op |-> "insert", frame_ind |-> frame_ind, position |-> pos,
                    text_size |-> text_size, raised |-> made.raised, result |-> None]
        /\ keyframes' = IF made.raised = ""
                        THEN insert_keyframe(keyframes, Val(made.kf))
                        ELSE keyframes
        /\ UNCHANGED <<spiralVars, uiVars, extVars>>

\* the record of a call of interpolate: the keyframe returned, or the
\* exception raised and nothing returned
interpolate_call(kfs, frame_ind) ==
    LET r == interpolate(kfs, frame_ind)
    IN  [op |-> "interpolate", frame_ind |-> frame_ind, position |-> None,
         text_size |-> None,
         raised |-> IF r = AssertionError THEN AssertionError.raised ELSE "",
         result |-> IF r = AssertionError THEN None ELSE Some(r)]

\* collection.interpolate(frame_ind)
Interpolate(frame_ind) ==
    /\ last' = interpolate_call(keyframes, frame_ind)
    /\ UNCHANGED <<keyframes, spiralVars, uiVars, extVars>>

NextKeyframes ==
    \/ \E f \in KeyframeInds, p \in PositionArgs, s \in TextSizeArgs :
          InsertKeyframe(f, p, s)
    \/ \E f \in QueryInds : Interpolate(f)

SpecKeyframes == InitKeyframes /\ [][NextKeyframes]_vars

-----------------------------------------------------------------------------
(* src/templates.py: spiral and render_spiral *)

\* the id f"Text {n}"
TemplateId(n) == <<"Text ", n>>

\* the first k elements of the sequence s
Take(s, k) == SubSeq(s, 1, k)

spiral_backward_first(start, length) ==
    [fwd |-> start, stop |-> length, bwd |-> start - 1,
     nexts |-> <<"backward", "forward">>, num_active |-> 2]

spiral_forward_only(start, length) ==
    [fwd |-> start, stop |-> length, bwd |-> start - 1,
     nexts |-> <<"forward">>, num_active |-> 1]

\* spiral(start_ind, length): the generator roundrobin(forward, backward)
\* before its first next(); fwd and bwd are the next values of the two range
\* iterators, nexts the cycle of their __next__ methods from the one called
\* next
spiral_gen(start, length) ==
    [fwd |-> start, stop |-> length, bwd |-> start - 1,
     nexts |-> <<"forward", "backward">>, num_active |-> 2]

\* one next() on the generator: call the head of the cycle; on StopIteration
\* drop it (num_active -= 1, nexts = cycle(islice(nexts, num_active))) and go
\* on; the generator returns when num_active reaches 0
RECURSIVE roundrobin_next(_)
roundrobin_next(g) ==
    IF g.num_active = 0
    THEN [done |-> TRUE, value |-> 0, gen |-> g]
    ELSE LET it      == Head(g.nexts)
             rotated == Tail(g.nexts) \o <<it>>
             has     == IF it = "forward" THEN g.fwd < g.stop ELSE g.bwd > -1
         IN  IF has
             THEN [done |-> FALSE,
                   value |-> IF it = "forward" THEN g.fwd ELSE g.bwd,
                   gen |-> [g EXCEPT !.fwd = IF it = "forward" THEN @ + 1 ELSE @,
                                     !.bwd = IF it = "backward" THEN @ - 1 ELSE @,
                                     !.nexts = rotated]]
             ELSE roundrobin_next([g EXCEPT !.num_active = @ - 1,
                                            !.nexts = Take(rotated, g.num_active - 1)])

InitSpiral ==
    /\ seq_len \in 1 .. MaxLen
    /\ \E k \in 1 .. MaxRenderLayers : render_layers = [i \in 1 .. k |-> TemplateId(i)]
    /\ spiral = None /\ pc = "idle" /\ cur_frame = 0 /\ cur_layer = 0
    /\ start_ind = 0 /\ rendered = <<>>
    /\ keyframes = <<>> /\ last = NoCall
    /\ UiIdle
    /\ ExtIdle

\* render_spiral(sequence, render_options, current_ind) up to the first
\* frame index the generator yields
RenderSpiralCall(current_ind) ==
    /\ pc = "idle"
    /\ LET n == roundrobin_next(spiral_gen(current_ind, seq_len))
       IN  /\ spiral' = Some(n.gen)
           /\ pc' = IF n.done THEN "done" ELSE "frame"
           /\ cur_frame' = n.value
           /\ cur_layer' = 1
    /\ start_ind' = current_ind
    /\ UNCHANGED <<seq_len, render_layers, rendered, kfVars, uiVars, extVars>>

\* one pass of the inner loop: render_frame(sequence, frame_ind, content,
\* inplace=True) for the next template of render_options, then the next
\* template or, after the last one, the next frame index of the generator
RenderFrame ==
    /\ pc = "frame"
    /\ rendered' = Append(rendered, <<cur_frame, render_layers[cur_layer]>>)
    /\ IF cur_layer < Len(render_layers)
       THEN /\ cur_layer' = cur_layer + 1
            /\ UNCHANGED <<spiral, pc, cur_frame>>
       ELSE LET n == roundrobin_next(Val(spiral))
            IN  /\ spiral' = Some(n.gen)
                /\ pc' = IF n.done THEN "done" ELSE "frame"
                /\ cur_frame' = IF n.done THEN cur_frame ELSE n.value
                /\ cur_layer' = 1
    /\ UNCHANGED <<seq_len, render_layers, start_ind, kfVars, uiVars, extVars>>

NextSpiral ==
    \/ \E a \in 0 .. seq_len - 1 : RenderSpiralCall(a)
    \/ RenderFrame

SpecSpiral == InitSpiral /\ [][NextSpiral]_vars

\* render_spiral is one loop on one thread: once called it keeps running
SpecSpiralFair == SpecSpiral /\ WF_vars(RenderFrame)

-----------------------------------------------------------------------------
(* src/animator.py: the layer set handlers of MainWindow *)

Contains(s, v) == \E i \in 1 .. Len(s) : s[i] = v

Remove(s, v) == SelectSeq(s, LAMBDA e : e # v)

\* MainWindow built as in __main__ and in the tests' fixture: one template
\* "Text 1", selected, frame 0 shown
InitLayers ==
    /\ templates = <<TemplateId(1)>>
    /\ selected = TemplateId(1)
    /\ current_frame_index = 0
    /\ ui_last = [op |-> "none", count_before |-> 0]
    /\ keyframes = <<>> /\ last = NoCall
    /\ KfIdle
    /\ ExtIdle

\* MemeAnimationTemplate.add_template: templates_dict[template.id] = template;
\* a dict keeps the place of a key it already holds
add_template(dict, id) == IF Contains(dict, id) THEN dict ELSE Append(dict, id)

\* MemeAnimationTemplate.remove_template
remove_template(dict, id) == Remove(dict, id)

on_click_add_text_template ==
    /\ Len(templates) < MaxLayers
    /\ LET initial_template_id == TemplateId(1 + Len(templates))
       IN  /\ templates' = add_template(templates, initial_template_id)
           /\ selected' = initial_template_id
    /\ ui_last' = [op |-> "add", count_before |-> Len(templates)]
    /\ UNCHANGED <<current_frame_index, kfVars, spiralVars, extVars>>

\* the handler with the guard off by one; templates_list[0] then raises
\* IndexError after the removal and the selection stays
on_click_delete_guard_off_by_one ==
    /\ IF Len(templates) >= 1
       THEN /\ templates' = remove_template(templates, selected)
            /\ selected' = IF templates' = <<>> THEN selected ELSE templates'[1]
       ELSE UNCHANGED <<templates, selected>>
    /\ ui_last' = [op |-> "delete", count_before |-> Len(templates)]
    /\ UNCHANGED <<current_frame_index, kfVars, spiralVars, extVars>>

on_click_delete_current_text_template ==
    /\ IF Len(templates) > 1
       THEN /\ templates' = remove_template(templates, selected)
            /\ selected' = templates'[1]
       ELSE UNCHANGED <<templates, selected>>
    /\ ui_last' = [op |-> "delete", count_before |-> Len(templates)]
    /\ UNCHANGED <<current_frame_index, kfVars, spiralVars, extVars>>

\* TemplateSelectionPanel.on_combo_change -> change_selected_text_template
on_combo_change(template_id) ==
    /\ selected' = template_id
    /\ ui_last' = [op |-> "select", count_before |-> Len(templates)]
    /\ UNCHANGED <<templates, current_frame_index, kfVars, spiralVars, extVars>>

\* MainWindow.on_change_frame, the slot of the frames slider
on_change_frame(index) ==
    /\ current_frame_index' = index
    /\ ui_last' = [op |-> "frame", count_before |-> Len(templates)]
    /\ UNCHANGED <<templates, selected, kfVars, spiralVars, extVars>>

NextLayers ==
    \/ on_click_add_text_template
    \/ on_click_delete_current_text_template
    \/ \E i \in 1 .. Len(templates) : on_combo_change(templates[i])
    \/ \E f \in FrameInds : on_change_frame(f)

SpecLayers == InitLayers /\ [][NextLayers]_vars

-----------------------------------------------------------------------------
(* src/templates.py, src/keyframes.py: serialize and deserialize *)

\* most layers of a serialized layer set
MaxSerLayers == 2

\* the frame indices a serialized store may hold keyframes at
SerKeyframeInds == {2, 5}

\* TextAnimationKeyframe.serialize: dict(frame_ind, position, text_size),
\* position being the pair the position property returns
keyframe_serialize(kf) ==
    [frame_ind |-> kf.frame_ind, position |-> position(kf), text_size |-> kf.text_size]

\* TextAnimationKeyframe.deserialize: cls(frame_ind, position, text_size)
keyframe_deserialize(serialized_dict) ==
    TextAnimationKeyframe(serialized_dict.frame_ind, serialized_dict.position,
                          serialized_dict.text_size)

\* TextAnimationKeyframeCollection.serialize
collection_serialize(kfs) == [i \in 1 .. Len(kfs) |-> keyframe_serialize(kfs[i])]

\* TextAnimationKeyframeCollection.deserialize: insert_keyframe of every
\* deserialized keyframe into a new collection; position is a pair in every
\* serialized keyframe, so the constructor does not raise
RECURSIVE collection_deserialize_loop(_, _)
collection_deserialize_loop(collection, list_of_keyframes) ==
    IF list_of_keyframes = <<>> THEN collection
    ELSE collection_deserialize_loop(
             insert_keyframe(collection, Val(keyframe_deserialize(Head(list_of_keyframes)).kf)),
             Tail(list_of_keyframes))

collection_deserialize(list_of_keyframes) ==
    collection_deserialize_loop(<<>>, list_of_keyframes)

\* TextAnimationTemplate.__init__(template_id) with no initial keyframe
NewTextAnimationTemplate(template_id) ==
    [id |-> template_id, keyframes |-> <<>>, text_value |-> template_id,
     font_path |-> "Montserrat-Regular.ttf", text_color |-> Some("#FFF"),
     background_color |-> None, stroke_width |-> 2, stroke_color |-> Some("#000")]

\* TextAnimationTemplate.serialize
template_serialize(t) ==
    [id |-> t.id, keyframes |-> collection_serialize(t.keyframes),
     font_path |-> t.font_path, text_color |-> t.text_color,
     background_color |-> t.background_color, stroke_width |-> t.stroke_width,
     stroke_color |-> t.stroke_color]

template_deserialize_keeps_default_stroke(serialized_dict) ==
    [NewTextAnimationTemplate(serialized_dict.id) EXCEPT
        !.keyframes = collection_deserialize(serialized_dict.keyframes),
        !.font_path = serialized_dict.font_path,
        !.text_color = serialized_dict.text_color,
        !.background_color = serialized_dict.background_color,
        !.stroke_color = serialized_dict.stroke_color]

\* TextAnimationTemplate.deserialize
template_deserialize(serialized_dict) ==
    [NewTextAnimationTemplate(serialized_dict.id) EXCEPT
        !.keyframes = collection_deserialize(serialized_dict.keyframes),
        !.font_path = serialized_dict.font_path,
        !.text_color = serialized_dict.text_color,
        !.background_color = serialized_dict.background_color,
        !.stroke_width = serialized_dict.stroke_width,
        !.stroke_color = serialized_dict.stroke_color]

\* MemeAnimationTemplate.__init__: {t.id: t for t in text_templates}; a key
\* met again keeps its place and takes the later value
RECURSIVE templates_dict_loop(_, _)
templates_dict_loop(dict, text_templates) ==
    IF text_templates = <<>> THEN dict
    ELSE LET t == Head(text_templates)
             at == {i \in 1 .. Len(dict) : dict[i].id = t.id}
         IN  templates_dict_loop(
                 IF at = {} THEN Append(dict, t)
                 ELSE [dict EXCEPT ![CHOOSE i \in at : TRUE] = t],
                 Tail(text_templates))

MemeAnimationTemplate(text_templates) == templates_dict_loop(<<>>, text_templates)

\* MemeAnimationTemplate.serialize
meme_serialize(dict) == [i \in 1 .. Len(dict) |-> template_serialize(dict[i])]

\* MemeAnimationTemplate.deserialize
meme_deserialize(serialized_meme_template) ==
    MemeAnimationTemplate([i \in 1 .. Len(serialized_meme_template) |->
                              template_deserialize(serialized_meme_template[i])])

\* the keyframes a store may hold at one frame index
SerKeyframes(f) ==
    {[frame_ind |-> f, x |-> p[1], y |-> p[2], text_size |-> s] :
        p \in {<<None, None>>, <<Some(10), Some(10)>>}, s \in {None, Some(20)}}

\* the stores insert_keyframe can build over SerKeyframeInds: ascending,
\* at most one keyframe per index
SerStores ==
    {<<>>} \cup UNION {{<<k>> : k \in SerKeyframes(f)} : f \in SerKeyframeInds}
           \cup {<<a, b>> : a \in SerKeyframes(2), b \in SerKeyframes(5)}

\* the style TextTemplatePropertiesPanel.on_editing_finished can leave
SerStyles ==
    {[text_value |-> "", text_color |-> Some("#FFF"), background_color |-> None,
      stroke_width |-> 2, stroke_color |-> Some("#000")],
     [text_value |-> "hi", text_color |-> Some("#00ff00"),
      background_color |-> Some("#ff0000"), stroke_width |-> 0, stroke_color |-> None]}

SerTemplate(n, kfs, style) ==
    [NewTextAnimationTemplate(TemplateId(n)) EXCEPT
        !.keyframes = kfs,
        !.text_value = IF style.text_value = "" THEN TemplateId(n) ELSE <<style.text_value>>,
        !.text_color = style.text_color,
        !.background_color = style.background_color,
        !.stroke_width = style.stroke_width,
        !.stroke_color = style.stroke_color]

\* a layer set of one layer with any store and style, or of two layers in
\* either id order, the first plain and the second with any store and style
InitSerialize ==
    /\ \E kfs \in SerStores, style \in SerStyles, n \in 1 .. MaxSerLayers, two \in BOOLEAN :
          meme_template =
              IF two
              THEN <<SerTemplate((n % MaxSerLayers) + 1, <<>>, CHOOSE st \in SerStyles : st.text_value = ""),
                     SerTemplate(n, kfs, style)>>
              ELSE <<SerTemplate(n, kfs, style)>>
    /\ serialized = None /\ restored = None
    /\ keyframes = <<>> /\ last = NoCall
    /\ KfIdle
    /\ UiIdle
    /\ GifIdle
    /\ TrackIdle
    /\ EdIdle
    /\ ClickIdle
    /\ PanelIdle

\* meme_template.serialize(), as on_click_save calls it
Serialize ==
    /\ serialized' = Some(meme_serialize(meme_template))
    /\ UNCHANGED <<meme_template, restored, kfVars, spiralVars, uiVars, gifVars, trackVars, edVars, clickVars, panelVars>>

\* MemeAnimationTemplate.deserialize of the serialized layer set, as
\* load_animation_data calls it
Deserialize ==
    /\ serialized # None
    /\ restored' = Some(meme_deserialize(Val(serialized)))
    /\ UNCHANGED <<meme_template, serialized, kfVars, spiralVars, uiVars, gifVars, trackVars, edVars, clickVars, panelVars>>

NextSerialize ==
    \/ Serialize
    \/ Deserialize

SpecSerialize == InitSerialize /\ [][NextSerialize]_vars

-----------------------------------------------------------------------------
(* src/gif.py: GifSequence *)

\* longest sequence sliced
MaxGifLen == 3

\* a frame's array: its shape (rows, cols) and its pixels, all of one value
GifArray(shape, px) == [shape |-> shape, px |-> px]

\* GifFrame.from_array
GifFrame_from_array(array, duration) == [image |-> array, duration |-> duration]

\* np.stack raises ValueError on an empty list and on arrays whose shapes
\* differ
np_stack_raises(arrays) ==
    arrays = <<>> \/ \E i \in 1 .. Len(arrays) : arrays[i].shape # arrays[1].shape

from_frames_without_durations(frames) ==
    LET arrays == [i \in 1 .. Len(frames) |-> frames[i].image]
    IN  IF np_stack_raises(arrays)
        THEN [raised |-> "ValueError", sequence |-> None]
        ELSE [raised |-> "",
              sequence |-> Some([frames_array |-> arrays,
                                 durations_array |-> [i \in 1 .. Len(frames) |-> 0]])]

\* GifSequence.__init__(images): the array and info['duration'] of every
\* image
GifSequence(images) ==
    [frames_array |-> [i \in 1 .. Len(images) |-> images[i].image],
     durations_array |-> [i \in 1 .. Len(images) |-> images[i].duration]]

\* GifSequence.from_frames
from_frames(frames) ==
    LET arrays == [i \in 1 .. Len(frames) |-> frames[i].image]
    IN  IF np_stack_raises(arrays)
        THEN [raised |-> "ValueError", sequence |-> None]
        ELSE [raised |-> "",
              sequence |-> Some([frames_array |-> arrays,
                                 durations_array |->
                                     [i \in 1 .. Len(frames) |-> frames[i].duration]])]

\* GifSequence.__getitem__(int), 0-based
getitem_int(self, item) ==
    GifFrame_from_array(self.frames_array[item + 1], self.durations_array[item + 1])

\* GifSequence.__getitem__(slice(start, stop)) for start, stop >= 0:
\* slice.indices(len) clips both to len, range(start, stop) is empty when
\* start >= stop
getitem_slice(self, start, stop) ==
    LET n  == Len(self.frames_array)
        lo == IF start > n THEN n ELSE start
        hi == IF stop > n THEN n ELSE stop
    IN  from_frames([i \in 1 .. (IF hi > lo THEN hi - lo ELSE 0) |->
                        getitem_int(self, lo + i - 1)])

\* np.concatenate along axis 0 raises ValueError unless the other
\* dimensions of the two arrays agree
np_concatenate_raises(a, b) == a[1].shape # b[1].shape

add_unchecked(self, other) ==
    [raised |-> "",
     sequence |-> Some([frames_array |-> self.frames_array \o other.frames_array,
                        durations_array |-> self.durations_array \o other.durations_array]),
     self |-> self, other |-> other]

\* GifSequence.__add__(other) for a GifSequence other: the result is a
\* shallow copy of self with both arrays replaced; self and other are the
\* operands as the call leaves them
add(self, other) ==
    IF np_concatenate_raises(self.frames_array, other.frames_array)
    THEN [raised |-> "ValueError", sequence |-> None, self |-> self, other |-> other]
    ELSE [raised |-> "",
          sequence |-> Some([frames_array |-> self.frames_array \o other.frames_array,
                             durations_array |-> self.durations_array \o other.durations_array]),
          self |-> self, other |-> other]

\* the frames of the GIF files opened
GifFrames(shape) ==
    {[image |-> GifArray(shape, 0), duration |-> 40],
     [image |-> GifArray(shape, 1), duration |-> 100]}

\* GifSequence.open: the sequences of 1 .. MaxGifLen frames of one shape
GifSequences(shape) ==
    {GifSequence(images) :
        images \in UNION {[1 .. n -> GifFrames(shape)] : n \in 1 .. MaxGifLen}}

\* the sequences opened as a right operand: two single frames of the two
\* shapes
OtherSequences ==
    {GifSequence(<<[image |-> GifArray(shape, 0), duration |-> 40]>>) :
        shape \in {<<2, 2>>, <<2, 3>>}}

InitGif ==
    /\ gif_seq \in GifSequences(<<2, 2>>)
    /\ gif_left = None /\ gif_right = None /\ gif_sum = None
    /\ keyframes = <<>> /\ last = NoCall
    /\ KfIdle
    /\ UiIdle
    /\ SerIdle
    /\ TrackIdle
    /\ EdIdle
    /\ ClickIdle
    /\ PanelIdle

\* gif_left = gif_seq[start:stop]; a slice that raises assigns nothing; the
\* sum of the former operands is forgotten
SliceLeft(start, stop) ==
    /\ LET r == getitem_slice(gif_seq, start, stop)
       IN  gif_left' = IF r.raised = ""
                       THEN Some([sequence |-> Val(r.sequence),
                                  origin |-> <<"slice", start, stop>>])
                       ELSE gif_left
    /\ gif_sum' = None
    /\ UNCHANGED <<gif_seq, gif_right, kfVars, spiralVars, uiVars, serVars, trackVars, edVars, clickVars, panelVars>>

\* gif_right = gif_seq[start:stop]
SliceRight(start, stop) ==
    /\ LET r == getitem_slice(gif_seq, start, stop)
       IN  gif_right' = IF r.raised = ""
                        THEN Some([sequence |-> Val(r.sequence),
                                   origin |-> <<"slice", start, stop>>])
                        ELSE gif_right
    /\ gif_sum' = None
    /\ UNCHANGED <<gif_seq, gif_left, kfVars, spiralVars, uiVars, serVars, trackVars, edVars, clickVars, panelVars>>

\* gif_right = GifSequence.open(another file)
OpenRight(other) ==
    /\ gif_right' = Some([sequence |-> other, origin |-> <<"open">>])
    /\ gif_sum' = None
    /\ UNCHANGED <<gif_seq, gif_left, kfVars, spiralVars, uiVars, serVars, trackVars, edVars, clickVars, panelVars>>

\* gif_left + gif_right
Add ==
    /\ gif_left # None /\ gif_right # None
    /\ LET r == add(Val(gif_left).sequence, Val(gif_right).sequence)
       IN  /\ gif_sum' = Some([raised |-> r.raised, sequence |-> r.sequence])
           /\ gif_left' = Some([Val(gif_left) EXCEPT !.sequence = r.self])
           /\ gif_right' = Some([Val(gif_right) EXCEPT !.sequence = r.other])
    /\ UNCHANGED <<gif_seq, kfVars, spiralVars, uiVars, serVars, trackVars, edVars, clickVars, panelVars>>

NextGif ==
    \/ \E start, stop \in 0 .. MaxGifLen + 1 : SliceLeft(start, stop)
    \/ \E start, stop \in 0 .. MaxGifLen + 1 : SliceRight(start, stop)
    \/ \E other \in OtherSequences : OpenRight(other)
    \/ Add

SpecGif == InitGif /\ [][NextGif]_vars

-----------------------------------------------------------------------------
(* src/tracker.py and TrackerPropertiesPanel of src/animator.py *)

\* frames of the sequence tracked over
TrackLen == 2

\* most track_frame calls followed
MaxTrackSteps == 1

\* pointer positions of presses and moves in the viewer
ViewerPoints == {<<2, 2>>, <<6, 4>>}

\* the box (x, y, w, h) the KCF tracker reports on update
TrackerBoxes == {<<4, 4, 4, 2>>}

\* Tracker.active
active(t) == t.begin # QPoint0 /\ t.end # QPoint0

center_of_begin(t) == t.begin

\* Tracker.center: int() of the two float means
center(t) == <<PyInt(t.end[1] + t.begin[1], 2), PyInt(t.end[2] + t.begin[2], 2)>>

\* Tracker.update(frame), (ok, new_bbox) being what cv2's tracker returns;
\* before any initialize _tracker is None and _tracker.update raises
update(t, ok, new_bbox) ==
    IF ~t.kcf
    THEN [raised |-> "AttributeError", tracker |-> t, delta |-> QPoint0]
    ELSE IF ~ok
    THEN [raised |-> "",
          tracker |-> [t EXCEPT !.failed = TRUE, !.begin = QPoint0, !.end = QPoint0],
          delta |-> QPoint0]
    ELSE LET moved == [t EXCEPT !.begin = <<new_bbox[1], new_bbox[2]>>,
                                !.end = <<new_bbox[1] + new_bbox[3],
                                          new_bbox[2] + new_bbox[4]>>]
         IN  [raised |-> "", tracker |-> moved,
              delta |-> <<center(moved)[1] - center(t)[1],
                          center(moved)[2] - center(t)[2]>>]

\* Tracker.reset(), called by on_tracker_mode: the region is cleared
reset(t) == [t EXCEPT !.begin = QPoint0, !.end = QPoint0]

\* KeyframeCollection.reset(): the store after all keyframes were cleared
keyframes_reset == <<>>

\* KeyframeCollection.keyframes_frames_indices
keyframes_frames_indices(kfs) == {kfs[i].frame_ind : i \in 1 .. Len(kfs)}

\* KeyframeCollection.get_keyframe(frame_ind): the keyframe stored at that
\* index, None when there is none
get_keyframe(kfs, frame_ind) ==
    IF frame_ind \in keyframes_frames_indices(kfs)
    THEN Some(kfs[CHOOSE i \in 1 .. Len(kfs) : kfs[i].frame_ind = frame_ind])
    ELSE None

\* the store of the template when tracking starts: loaded by
\* load_animation_data from a document with one keyframe that has a size
LoadedStores ==
    {<<[frame_ind |-> 1, x |-> Some(6), y |-> Some(4), text_size |-> Some(20)]>>}

\* MainWindow with one template and a sequence of TrackLen frames
InitTracker ==
    /\ keyframes \in LoadedStores /\ last = NoCall
    /\ seq_len = TrackLen
    /\ current_frame_index = 0
    /\ tracker_mode = FALSE /\ tracker = NewTracker /\ track_last = NoTrack
    /\ render_layers = <<>> /\ spiral = None /\ pc = "idle"
    /\ cur_frame = 0 /\ cur_layer = 0 /\ start_ind = 0 /\ rendered = <<>>
    /\ templates = <<TemplateId(1)>> /\ selected = TemplateId(1)
    /\ ui_last = [op |-> "none", count_before |-> 0]
    /\ SerIdle
    /\ GifIdle
    /\ EdIdle
    /\ ClickIdle
    /\ PanelIdle

trackFrame == <<render_layers, spiral, pc, cur_frame, cur_layer, start_ind, rendered,
                templates, selected, ui_last, last, seq_len, serVars,
                gifVars, edVars, clickVars, panelVars>>

\* the record of a handler other than track_frame
OtherHandler == [NoTrack EXCEPT !.steps = track_last.steps, !.region = track_last.region]

\* TrackerPropertiesPanel.on_tracker_mode
on_tracker_mode ==
    /\ tracker_mode' = ~tracker_mode
    /\ tracker' = reset(tracker)
    /\ track_last' = [OtherHandler EXCEPT !.region = "none"]
    /\ UNCHANGED <<keyframes, current_frame_index, trackFrame>>

\* the frames slider moved by the user; it is disabled in tracker mode
SliderTo(index) ==
    /\ ~tracker_mode
    /\ current_frame_index' = index
    /\ track_last' = OtherHandler
    /\ UNCHANGED <<keyframes, tracker_mode, tracker, trackFrame>>

\* FramesViewer.mousePressEvent with one template: the tracker's corners in
\* tracker mode, a position keyframe at the shown frame otherwise
TrackerMousePress(pos) ==
    /\ IF tracker_mode
       THEN /\ tracker' = [tracker EXCEPT !.begin = pos, !.end = pos]
            /\ track_last' = [OtherHandler EXCEPT !.region = "dragging"]
            /\ UNCHANGED keyframes
       ELSE /\ keyframes' = insert_keyframe(keyframes,
                                Val(TextAnimationKeyframe(current_frame_index,
                                        <<Some(pos[1]), Some(pos[2])>>, None).kf))
            /\ track_last' = OtherHandler
            /\ UNCHANGED tracker
    /\ UNCHANGED <<tracker_mode, current_frame_index, trackFrame>>

\* FramesViewer.mouseMoveEvent with one template: the tracker's end corner
\* in tracker mode, a position keyframe at the shown frame otherwise; Qt
\* delivers moves and the release only after a press on the viewer
TrackerMouseMove(pos) ==
    /\ tracker_mode => track_last.region = "dragging"
    /\ IF tracker_mode
       THEN /\ tracker' = [tracker EXCEPT !.end = pos]
            /\ track_last' = [OtherHandler EXCEPT !.region = "dragging"]
            /\ UNCHANGED keyframes
       ELSE /\ keyframes' = insert_keyframe(keyframes,
                                Val(TextAnimationKeyframe(current_frame_index,
                                        <<Some(pos[1]), Some(pos[2])>>, None).kf))
            /\ track_last' = OtherHandler
            /\ UNCHANGED tracker
    /\ UNCHANGED <<tracker_mode, current_frame_index, trackFrame>>

\* FramesViewer.mouseReleaseEvent in tracker mode: Tracker.initialize, ok
\* being what cv2's init returns
TrackerMouseRelease(ok) ==
    /\ tracker_mode
    /\ track_last.region = "dragging"
    /\ tracker' = [tracker EXCEPT !.kcf = TRUE, !.failed = ~ok]
    /\ track_last' = [OtherHandler EXCEPT !.region = "released"]
    /\ UNCHANGED <<tracker_mode, keyframes, current_frame_index, trackFrame>>

out_of_range_upper_inclusive(new_frame_num, length) ==
    new_frame_num < 0 \/ new_frame_num > length

\* the bound check of track_frame on the target index
out_of_range(new_frame_num, length) ==
    new_frame_num < 0 \/ new_frame_num > length - 1

\* TrackerPropertiesPanel.track_frame(frame_diff), (ok, new_bbox) being what
\* cv2's tracker returns on update
track_frame(frame_diff, ok, new_bbox) ==
    LET frame_num     == current_frame_index
        new_frame_num == frame_num + frame_diff
        called        == [NoTrack EXCEPT !.frame_diff = frame_diff,
                                         !.from_frame = frame_num,
                                         !.to_frame = new_frame_num,
                                         !.steps = track_last.steps + 1,
                                         !.region = track_last.region]
    IN  /\ track_last.steps < MaxTrackSteps
        /\ IF ~active(tracker)
           THEN /\ track_last' = [called EXCEPT !.outcome = "inactive"]
                /\ UNCHANGED <<tracker, keyframes, current_frame_index>>
           ELSE IF out_of_range(new_frame_num, seq_len)
           THEN /\ track_last' = [called EXCEPT !.outcome = "out of range"]
                /\ UNCHANGED <<tracker, keyframes, current_frame_index>>
           ELSE LET keyframe == IF frame_num \notin keyframes_frames_indices(keyframes)
                                THEN interpolate(keyframes, frame_num)
                                ELSE Val(get_keyframe(keyframes, frame_num))
                    u == update(tracker, ok, new_bbox)
                IN  /\ tracker' = u.tracker
                    /\ IF u.raised # ""
                       THEN /\ track_last' = [called EXCEPT !.outcome = u.raised]
                            /\ UNCHANGED <<keyframes, current_frame_index>>
                       ELSE IF keyframe.x = None \/ keyframe.y = None
                       THEN \* None + int raises TypeError
                            /\ track_last' = [called EXCEPT !.outcome = "TypeError",
                                                            !.ok = ok, !.delta = u.delta]
                            /\ UNCHANGED <<keyframes, current_frame_index>>
                       ELSE LET new_position == <<Some(Val(keyframe.x) + u.delta[1]),
                                                  Some(Val(keyframe.y) + u.delta[2])>>
                            IN  /\ keyframes' = insert_keyframe(keyframes,
                                        Val(TextAnimationKeyframe(new_frame_num,
                                                                  new_position, None).kf))
                                /\ current_frame_index' = new_frame_num
                                /\ track_last' =
                                       [called EXCEPT !.outcome = "written", !.ok = ok,
                                                      !.delta = u.delta,
                                                      !.reference = <<Val(keyframe.x),
                                                                      Val(keyframe.y)>>,
                                                      !.replaced =
                                                          IF get_keyframe(keyframes, new_frame_num) = None
                                                          THEN None
                                                          ELSE Some(position(Val(get_keyframe(keyframes, new_frame_num))))]
        /\ UNCHANGED <<tracker_mode, trackFrame>>

\* QSlider.setValue: the value is bound to [minimum, maximum]
slider_bound(value, maximum) ==
    IF value < 0 THEN 0 ELSE IF value > maximum THEN maximum ELSE value

\* MainWindow.keyPressEvent for the keys L (frame_diff 1) and J (-1): the
\* slider moves while the tracker has no active region, track_frame runs
\* otherwise
keyPressEvent(frame_diff, ok, new_bbox) ==
    IF ~active(tracker)
    THEN /\ current_frame_index' = slider_bound(current_frame_index + frame_diff, seq_len - 1)
         /\ track_last' = OtherHandler
         /\ UNCHANGED <<keyframes, tracker_mode, tracker, trackFrame>>
    ELSE track_frame(frame_diff, ok, new_bbox)

\* the Reset button and the menu entry "Reset all animation data" with one
\* template: MainWindow.on_click_reset, on_click_reset_all
TrackerReset ==
    /\ keyframes' = keyframes_reset
    /\ track_last' = OtherHandler
    /\ UNCHANGED <<current_frame_index, tracker_mode, tracker, trackFrame>>

NextTracker ==
    \/ on_tracker_mode
    \/ TrackerReset
    \/ \E index \in 0 .. TrackLen - 1 : SliderTo(index)
    \/ \E pos \in ViewerPoints : TrackerMousePress(pos)
    \/ \E pos \in ViewerPoints : TrackerMouseMove(pos)
    \/ \E ok \in BOOLEAN : TrackerMouseRelease(ok)
    \/ \E frame_diff \in {-1, 1}, ok \in BOOLEAN, new_bbox \in TrackerBoxes :
          track_frame(frame_diff, ok, new_bbox)
    \/ \E frame_diff \in {-1, 1}, ok \in BOOLEAN, new_bbox \in TrackerBoxes :
          keyPressEvent(frame_diff, ok, new_bbox)

SpecTracker == InitTracker /\ [][NextTracker]_vars

-----------------------------------------------------------------------------
(* src/animator.py: FramePropertiesPanel and the viewer, one template *)

\* frames of the sequence edited
EdLen == 3

\* most Add Keyframe clicks followed
MaxToggleAdds == 1

\* pointer positions of clicks in the viewer
ClickPoints == {<<6, 4>>}

\* the texts typed into the text size field
TextSizeTexts == {Empty, Txt(20), Bad}

\* str(v) if v is not None else ""
StrOrEmpty(o) == IF o = None THEN Empty ELSE Txt(Val(o))

\* KeyframeCollection.remove_keyframe(frame_ind): the entry with that index
\* is deleted if present, nothing happens otherwise
remove_keyframe(kfs, frame_ind) == SelectSeq(kfs, LAMBDA k : k.frame_ind # frame_ind)

\* FramePropertiesPanel.on_selected_frame_change: the form after it ran
on_selected_frame_change(kfs, frame_num) ==
    IF frame_num \in keyframes_frames_indices(kfs)
    THEN LET keyframe == Val(get_keyframe(kfs, frame_num))
         IN  [is_enabled |-> TRUE, checked |-> TRUE, frameEdit |-> Txt(frame_num),
              xEdit |-> StrOrEmpty(keyframe.x), yEdit |-> StrOrEmpty(keyframe.y),
              textSizeEdit |-> StrOrEmpty(keyframe.text_size)]
    ELSE LET keyframe == interpolate(kfs, frame_num)
         IN  [is_enabled |-> FALSE, checked |-> FALSE, frameEdit |-> Txt(frame_num),
              xEdit |-> StrOrEmpty(keyframe.x), yEdit |-> StrOrEmpty(keyframe.y),
              textSizeEdit |-> StrOrEmpty(keyframe.text_size)]

\* MainWindow.__init__ with one template without keyframes, frame 0 shown
InitEditor ==
    /\ keyframes = <<>> /\ last = NoCall
    /\ seq_len = EdLen
    /\ current_frame_index = 0
    /\ form = on_selected_frame_change(<<>>, 0)
    /\ ed_last = NoEdit
    /\ render_layers = <<>> /\ spiral = None /\ pc = "idle"
    /\ cur_frame = 0 /\ cur_layer = 0 /\ start_ind = 0 /\ rendered = <<>>
    /\ templates = <<TemplateId(1)>> /\ selected = TemplateId(1)
    /\ ui_last = [op |-> "none", count_before |-> 0]
    /\ SerIdle
    /\ GifIdle
    /\ TrackIdle
    /\ ClickIdle
    /\ PanelIdle

edFrame == <<render_layers, spiral, pc, cur_frame, cur_layer, start_ind, rendered,
             templates, selected, ui_last, last, seq_len, serVars,
             gifVars, trackVars, clickVars, panel>>

\* a handler of the keyframe form ran last, none of the properties panel
NoPanelHandler == panel_last' = NoPanelCall

\* FramesViewer.mousePressEvent, tracker mode off, no other template to hit:
\* a position keyframe at the shown frame, then the form is refreshed
mousePressEvent(pos) ==
    /\ keyframes' = insert_keyframe(keyframes,
                        Val(TextAnimationKeyframe(current_frame_index,
                                                  <<Some(pos[1]), Some(pos[2])>>, None).kf))
    /\ form' = on_selected_frame_change(keyframes', current_frame_index)
    /\ ed_last' = [op |-> "click", frame_ind |-> current_frame_index, raised |-> "", adds |-> ed_last.adds]
    /\ NoPanelHandler
    /\ UNCHANGED <<current_frame_index, status_message, edFrame>>

\* the frames slider: on_change_frame, on_selected_frame_change
frames_slider_valueChanged(index) ==
    /\ current_frame_index' = index
    /\ form' = on_selected_frame_change(keyframes, index)
    /\ ed_last' = [op |-> "slider", frame_ind |-> index, raised |-> "", adds |-> ed_last.adds]
    /\ NoPanelHandler
    /\ UNCHANGED <<keyframes, status_message, edFrame>>

\* the user types into the text size field, which is enabled
textSizeEdit_setText(text) ==
    /\ form.is_enabled
    /\ form' = [form EXCEPT !.textSizeEdit = text]
    /\ ed_last' = [op |-> "type", frame_ind |-> current_frame_index, raised |-> "", adds |-> ed_last.adds]
    /\ NoPanelHandler
    /\ UNCHANGED <<keyframes, current_frame_index, status_message, edFrame>>

\* the user types a frame index into the frame field, which is enabled
frameEdit_setText(text) ==
    /\ form.is_enabled
    /\ form' = [form EXCEPT !.frameEdit = text]
    /\ ed_last' = [op |-> "type", frame_ind |-> current_frame_index, raised |-> "", adds |-> ed_last.adds]
    /\ NoPanelHandler
    /\ UNCHANGED <<keyframes, current_frame_index, status_message, edFrame>>

\* some int() of FramePropertiesPanel.on_editing_finished raises ValueError:
\* int(x_str) and int(y_str) are evaluated only when both texts are not
\* empty, int(frame_ind_str) and int(text_size_str) when theirs is not
ValueErrorInForm(f) ==
    \/ /\ f.xEdit.kind # "empty" /\ f.yEdit.kind # "empty"
       /\ (f.xEdit.kind = "bad" \/ f.yEdit.kind = "bad")
    \/ f.frameEdit.kind = "bad"
    \/ f.textSizeEdit.kind = "bad"

\* FramePropertiesPanel.on_editing_finished; int() of a text that is no
\* integer raises ValueError, which the handler catches; a None position
\* makes the constructor raise TypeError, a None frame index makes the
\* comparison in bisect_left raise it; "!=" compares two distinct objects and
\* is always true
on_editing_finished ==
    /\ LET has_position == form.xEdit.kind # "empty" /\ form.yEdit.kind # "empty"
           value_error  == ValueErrorInForm(form)
           type_error   == ~has_position \/ form.frameEdit.kind = "empty"
           new_keyframe == TextAnimationKeyframe(
                               form.frameEdit.val,
                               <<Some(form.xEdit.val), Some(form.yEdit.val)>>,
                               IF form.textSizeEdit.kind = "empty" THEN None
                               ELSE Some(form.textSizeEdit.val))
       IN  IF ~form.is_enabled
           THEN /\ ed_last' = [op |-> "edit", frame_ind |-> current_frame_index,
                               raised |-> "disabled", adds |-> ed_last.adds]
                /\ UNCHANGED keyframes
           ELSE IF value_error
           THEN /\ ed_last' = [op |-> "edit", frame_ind |-> current_frame_index,
                               raised |-> "ValueError", adds |-> ed_last.adds]
                /\ UNCHANGED keyframes
           ELSE IF type_error
           THEN /\ ed_last' = [op |-> "edit", frame_ind |-> current_frame_index,
                               raised |-> "TypeError", adds |-> ed_last.adds]
                /\ UNCHANGED keyframes
           ELSE IF get_keyframe(keyframes, current_frame_index) = None
           THEN /\ ed_last' = [op |-> "edit", frame_ind |-> current_frame_index,
                               raised |-> "NotFound", adds |-> ed_last.adds]
                /\ UNCHANGED keyframes
           ELSE /\ keyframes' = insert_keyframe(keyframes, Val(new_keyframe.kf))
                /\ ed_last' = [op |-> "edit", frame_ind |-> form.frameEdit.val,
                               raised |-> "", adds |-> ed_last.adds]
    /\ status_message' = IF form.is_enabled /\ ValueErrorInForm(form)
                         THEN "Invalid values for keyframe. Please try again."
                         ELSE status_message
    /\ NoPanelHandler
    /\ UNCHANGED <<form, current_frame_index, edFrame>>

\* FramePropertiesPanel.on_toggle_keyframe(is_add), is_add being the checked
\* state the click gives the toggle button; the frame index is read from the
\* frame field
on_toggle_keyframe ==
    /\ form.checked \/ ed_last.adds < MaxToggleAdds
    /\ LET is_add == ~form.checked
       IN  IF form.frameEdit.kind # "int"
           THEN /\ ed_last' = [op |-> IF is_add THEN "toggle add" ELSE "toggle remove",
                               frame_ind |-> current_frame_index, raised |-> "ValueError", adds |-> ed_last.adds]
                /\ form' = [form EXCEPT !.checked = is_add]
                /\ UNCHANGED keyframes
           ELSE LET frame_ind == form.frameEdit.val
                IN  /\ keyframes' = IF is_add
                                    THEN insert_keyframe(keyframes,
                                                         interpolate(keyframes, frame_ind))
                                    ELSE remove_keyframe(keyframes, frame_ind)
                    /\ form' = on_selected_frame_change(keyframes', current_frame_index)
                    /\ ed_last' = [op |-> IF is_add THEN "toggle add" ELSE "toggle remove",
                                   frame_ind |-> frame_ind, raised |-> "",
                                   adds |-> ed_last.adds + (IF is_add THEN 1 ELSE 0)]
    /\ NoPanelHandler
    /\ UNCHANGED <<current_frame_index, status_message, edFrame>>

\* the Reset button: MainWindow.on_click_reset, then the second slot of the
\* button, the form's on_selected_frame_change
on_click_reset ==
    /\ keyframes' = keyframes_reset
    /\ form' = on_selected_frame_change(keyframes', current_frame_index)
    /\ ed_last' = [op |-> "reset", frame_ind |-> current_frame_index, raised |-> "",
                   adds |-> ed_last.adds]
    /\ NoPanelHandler
    /\ UNCHANGED <<current_frame_index, status_message, edFrame>>

\* the menu entry "Reset all animation data": MainWindow.on_click_reset_all,
\* which leaves the form as it is
on_click_reset_all ==
    /\ keyframes' = keyframes_reset
    /\ ed_last' = [op |-> "reset all", frame_ind |-> current_frame_index, raised |-> "",
                   adds |-> ed_last.adds]
    /\ NoPanelHandler
    /\ UNCHANGED <<form, current_frame_index, status_message, edFrame>>

NextEditor ==
    \/ \E pos \in ClickPoints : mousePressEvent(pos)
    \/ \E index \in 0 .. EdLen - 1 : frames_slider_valueChanged(index)
    \/ \E text \in TextSizeTexts : textSizeEdit_setText(text)
    \/ \E f \in 0 .. EdLen - 1 : frameEdit_setText(Txt(f))
    \/ on_editing_finished
    \/ on_toggle_keyframe
    \/ on_click_reset
    \/ on_click_reset_all

SpecEditor == InitEditor /\ [][NextEditor]_vars

-----------------------------------------------------------------------------
(* src/animator.py: the viewer with several templates *)

\* most layers the viewer is driven to
MaxClickLayers == 3

\* frames of the sequence shown
ClickLen == 1

\* most presses in the viewer followed
MaxPresses == 2

\* pointer positions of presses in the viewer
PressPoints == {<<20, 20>>, <<300, 300>>}

\* TextAnimationTemplate.get_text_box_shape: (width, height) of the text at
\* that size, standing for the font's getsize_multiline
get_text_box_shape(text_size) == <<3 * text_size, text_size>>

\* TextAnimationTemplate.get_text_bounding_box: (x, y, width, height)
get_text_bounding_box(center_position, font_size) ==
    LET shape == get_text_box_shape(font_size)
    IN  <<center_position[1] - shape[1] \div 2, center_position[2] - shape[2] \div 2,
          shape[1], shape[2]>>

\* QRect(x, y, width, height).contains(pos)
contains(rect, pos) ==
    /\ rect[1] <= pos[1] /\ pos[1] <= rect[1] + rect[3] - 1
    /\ rect[2] <= pos[2] /\ pos[2] <= rect[2] + rect[4] - 1

\* FramesViewer.paintEvent: text_template_to_rect rebuilt from every
\* template's interpolated keyframe at the shown frame
paintEvent(dict, frame_ind) ==
    [i \in 1 .. Len(dict) |->
        LET keyframe == interpolate(dict[i].keyframes, frame_ind)
        IN  [id |-> dict[i].id,
             rect |-> get_text_bounding_box(<<Val(keyframe.x), Val(keyframe.y)>>,
                                            Val(keyframe.text_size))]]

\* templates_dict[template.id] = template
dict_set(dict, template) ==
    IF \E i \in 1 .. Len(dict) : dict[i].id = template.id
    THEN [i \in 1 .. Len(dict) |-> IF dict[i].id = template.id THEN template ELSE dict[i]]
    ELSE Append(dict, template)

\* del templates_dict[id]
dict_del(dict, id) == SelectSeq(dict, LAMBDA t : t.id # id)

\* templates_dict[template_id], None for a KeyError
dict_get(dict, template_id) ==
    IF \E i \in 1 .. Len(dict) : dict[i].id = template_id
    THEN Some(dict[CHOOSE i \in 1 .. Len(dict) : dict[i].id = template_id])
    ELSE None

\* QColor(name).name(): the "#rrggbb" form of a colour name
QColorName(name) ==
    IF name = "#FFF" THEN "#ffffff" ELSE IF name = "#000" THEN "#000000" ELSE name

\* QColor(c) if c else None, then ColorButton.color().name()
ButtonColor(c) == IF c = None THEN None ELSE Some(QColorName(Val(c)))

\* TextTemplatePropertiesPanel.refresh: the widgets filled from the template
refresh(text_template) ==
    [textValue |-> text_template.text_value,
     strokeWidthEdit |-> Txt(text_template.stroke_width),
     textColorButton |-> ButtonColor(text_template.text_color),
     backgroundColorButton |-> ButtonColor(text_template.background_color),
     strokeColorButton |-> ButtonColor(text_template.stroke_color)]

\* the try block of TextTemplatePropertiesPanel.on_editing_finished:
\* int(stroke_width_str) raises before the first assignment
apply_panel(text_template, widgets) ==
    IF widgets.strokeWidthEdit.kind = "bad"
    THEN [raised |-> "ValueError", template |-> text_template]
    ELSE [raised |-> "",
          template |-> [text_template EXCEPT
                           !.text_value = widgets.textValue,
                           !.stroke_width = IF widgets.strokeWidthEdit.kind = "empty" THEN 0
                                            ELSE widgets.strokeWidthEdit.val,
                           !.text_color = widgets.textColorButton,
                           !.background_color = widgets.backgroundColorButton,
                           !.stroke_color = widgets.strokeColorButton]]

\* the slot of selected_text_template_changed in the properties panel,
\* TextTemplatePropertiesPanel.refresh, with text_template selected and the
\* widgets as they are: setPlainText emits textChanged, which runs
\* on_editing_finished with the text just set and the stroke width and the
\* colours the panel still shows; the remaining widgets are then filled from
\* the template
selected_text_template_changed(text_template, widgets) ==
    LET r == apply_panel(text_template,
                         [widgets EXCEPT !.textValue = text_template.text_value])
    IN  [raised |-> r.raised, template |-> r.template, widgets |-> refresh(r.template)]

\* the initial refresh at the end of MainWindow.__init__: the template after
\* the new panel's widgets were written into it
InitialRefresh ==
    selected_text_template_changed(NewTextAnimationTemplate(TemplateId(1)), NewPanel).template

LastHitOfAll(pos) ==
    LET hits == {i \in 1 .. Len(meme_template) :
                    /\ \E r \in 1 .. Len(text_template_to_rect) :
                          /\ text_template_to_rect[r].id = meme_template[i].id
                          /\ contains(text_template_to_rect[r].rect, pos)}
    IN  IF hits = {} THEN 0 ELSE CHOOSE i \in hits : \A j \in hits : i >= j

\* the index in templates_list of the first template the press hits: one
\* with a painted rect, other than the selected one, whose rect contains pos
FirstHit(pos) ==
    LET hits == {i \in 1 .. Len(meme_template) :
                    /\ \E r \in 1 .. Len(text_template_to_rect) :
                          /\ text_template_to_rect[r].id = meme_template[i].id
                          /\ contains(text_template_to_rect[r].rect, pos)
                    /\ meme_template[i].id # selected}
    IN  IF hits = {} THEN 0 ELSE CHOOSE i \in hits : \A j \in hits : i <= j

\* MainWindow.__init__ with the template "Text 1": the initial refresh has
\* run, the viewer has not painted yet; tracker holds the tracker of every
\* template, in the order of templates_list
InitClick ==
    /\ meme_template = <<InitialRefresh>>
    /\ selected = TemplateId(1)
    /\ panel = refresh(InitialRefresh)
    /\ status_message = NoStatus /\ panel_last = NoPanelCall
    /\ current_frame_index = 0
    /\ tracker_mode = FALSE /\ tracker = <<NewTracker>> /\ track_last = NoTrack
    /\ text_template_to_rect = <<>>
    /\ click_last = NoClick
    /\ serialized = None /\ restored = None
    /\ templates = <<>> /\ ui_last = [op |-> "none", count_before |-> 0]
    /\ keyframes = <<>> /\ last = NoCall
    /\ KfIdle
    /\ GifIdle
    /\ EdIdle

clickFrame == <<keyframes, last, spiralVars, templates, ui_last, serialized, restored,
                gifVars, track_last, edVars, panel_last>>

\* the index in templates_list of the selected template
SelectedIndex == CHOOSE i \in 1 .. Len(meme_template) : meme_template[i].id = selected

\* the trackers of the templates, in the order of templates_list, after
\* templates_dict[template_id] was set to a new template
trackers_set(dict, trackers, template_id) ==
    IF \E i \in 1 .. Len(dict) : dict[i].id = template_id
    THEN [i \in 1 .. Len(dict) |-> IF dict[i].id = template_id THEN NewTracker
                                    ELSE trackers[i]]
    ELSE Append(trackers, NewTracker)

\* the same after del templates_dict[id]
trackers_del(dict, trackers, id) ==
    LET kept == {i \in 1 .. Len(dict) : dict[i].id # id}
        nth(n) == CHOOSE i \in kept : Cardinality({j \in kept : j <= i}) = n
    IN  [n \in 1 .. Cardinality(kept) |-> trackers[nth(n)]]

\* MainWindow.change_selected_text_template(template_id) on the layer set
\* dict: the selection is set and the signal runs the panel's refresh, which
\* writes into the template now selected
ClickChangeSelected(dict, template_id) ==
    LET r == selected_text_template_changed(Val(dict_get(dict, template_id)), panel)
    IN  /\ selected' = template_id
        /\ meme_template' = dict_set(dict, r.template)
        /\ panel' = r.widgets
        /\ status_message' = IF r.raised = "ValueError"
                             THEN "Invalid properties for template. Please try again."
                             ELSE status_message

\* the keyframe store of the selected template replaced by kfs
SelectedKeyframes(dict, kfs) ==
    [i \in 1 .. Len(dict) |->
        IF dict[i].id = selected THEN [dict[i] EXCEPT !.keyframes = kfs] ELSE dict[i]]

\* the paint that update() asked for, run by the event loop after the
\* handler returned
ViewerPaint ==
    /\ text_template_to_rect # paintEvent(meme_template, current_frame_index)
    /\ text_template_to_rect' = paintEvent(meme_template, current_frame_index)
    /\ click_last' = [op |-> "paint", pos |-> QPoint0, presses |-> click_last.presses]
    /\ UNCHANGED <<meme_template, selected, panel, status_message, current_frame_index,
                   tracker_mode, tracker, clickFrame>>

\* FramesViewer.mousePressEvent; text_template_to_rect is as the last paint
\* left it
ViewerPress(pos) ==
    /\ click_last.presses < MaxPresses
    /\ IF tracker_mode
       THEN /\ tracker' = [tracker EXCEPT ![SelectedIndex].begin = pos,
                                          ![SelectedIndex].end = pos]
            /\ click_last' = [op |-> "press tracker", pos |-> pos,
                               presses |-> click_last.presses + 1]
            /\ UNCHANGED <<meme_template, selected, panel, status_message>>
       ELSE LET hit == FirstHit(pos)
            IN  IF hit # 0
                THEN /\ ClickChangeSelected(meme_template, meme_template[hit].id)
                     /\ click_last' = [op |-> "press select", pos |-> pos,
                               presses |-> click_last.presses + 1]
                     /\ UNCHANGED tracker
                ELSE /\ meme_template' =
                            SelectedKeyframes(meme_template,
                                insert_keyframe(Val(dict_get(meme_template, selected)).keyframes,
                                    Val(TextAnimationKeyframe(current_frame_index,
                                            <<Some(pos[1]), Some(pos[2])>>, None).kf)))
                     /\ click_last' = [op |-> "press move", pos |-> pos,
                               presses |-> click_last.presses + 1]
                     /\ UNCHANGED <<selected, tracker, panel, status_message>>
    /\ UNCHANGED <<current_frame_index, tracker_mode, text_template_to_rect, clickFrame>>

\* MainWindow.on_click_add_text_template on the layer set with its templates
ClickAddTemplate ==
    /\ Len(meme_template) < MaxClickLayers
    /\ LET initial_template_id == TemplateId(1 + Len(meme_template))
       IN  /\ ClickChangeSelected(dict_set(meme_template,
                                           NewTextAnimationTemplate(initial_template_id)),
                                  initial_template_id)
           /\ tracker' = trackers_set(meme_template, tracker, initial_template_id)
    /\ click_last' = [op |-> "add", pos |-> QPoint0, presses |-> click_last.presses]
    /\ UNCHANGED <<current_frame_index, tracker_mode, text_template_to_rect, clickFrame>>

\* MainWindow.on_click_delete_current_text_template on the same layer set
ClickDeleteTemplate ==
    /\ IF Len(meme_template) > 1
       THEN LET dict == dict_del(meme_template, selected)
            IN  /\ ClickChangeSelected(dict, dict[1].id)
                /\ tracker' = trackers_del(meme_template, tracker, selected)
       ELSE UNCHANGED <<meme_template, selected, panel, status_message, tracker>>
    /\ click_last' = [op |-> "delete", pos |-> QPoint0, presses |-> click_last.presses]
    /\ UNCHANGED <<current_frame_index, tracker_mode, text_template_to_rect, clickFrame>>

\* the Reset button: MainWindow.on_click_reset on the selected template
ClickReset ==
    /\ meme_template' = SelectedKeyframes(meme_template, keyframes_reset)
    /\ click_last' = [op |-> "reset", pos |-> QPoint0, presses |-> click_last.presses]
    /\ UNCHANGED <<selected, panel, status_message, current_frame_index, tracker_mode,
                   tracker, text_template_to_rect, clickFrame>>

\* the menu entry "Reset all animation data": MainWindow.on_click_reset_all
ClickResetAll ==
    /\ meme_template' = [i \in 1 .. Len(meme_template) |->
                            [meme_template[i] EXCEPT !.keyframes = keyframes_reset]]
    /\ click_last' = [op |-> "reset all", pos |-> QPoint0, presses |-> click_last.presses]
    /\ UNCHANGED <<selected, panel, status_message, current_frame_index, tracker_mode,
                   tracker, text_template_to_rect, clickFrame>>

\* the frames slider: on_change_frame and handle_frame_update
ClickSliderTo(index) ==
    /\ current_frame_index' = index
    /\ click_last' = [op |-> "slider", pos |-> QPoint0, presses |-> click_last.presses]
    /\ UNCHANGED <<meme_template, selected, panel, status_message, tracker_mode, tracker,
                   text_template_to_rect, clickFrame>>

\* TrackerPropertiesPanel.on_tracker_mode with several templates: the
\* tracker of the selected template is reset
ClickTrackerMode ==
    /\ tracker_mode' = ~tracker_mode
    /\ tracker' = [tracker EXCEPT ![SelectedIndex] = reset(@)]
    /\ click_last' = [op |-> "tracker mode", pos |-> QPoint0, presses |-> click_last.presses]
    /\ UNCHANGED <<meme_template, selected, panel, status_message, current_frame_index,
                   text_template_to_rect, clickFrame>>

NextClick ==
    \/ \E pos \in PressPoints : ViewerPress(pos)
    \/ ViewerPaint
    \/ ClickAddTemplate
    \/ ClickDeleteTemplate
    \/ ClickReset
    \/ ClickResetAll
    \/ \E index \in 0 .. ClickLen - 1 : ClickSliderTo(index)
    \/ ClickTrackerMode

SpecClick == InitClick /\ [][NextClick]_vars

-----------------------------------------------------------------------------
(* src/templates.py: render; src/generate_meme.py *)

\* most frames of a rendered sequence
MaxRenderFrames == 2

\* most strings given on the command line beyond the number of layers
MaxExtraTexts == 1

\* the strings to fill the layers with
RenderContents == {<<"a">>, <<"b">>}

\* TextAnimationTemplate._draw_outlined_text: the pixels of a frame are the
\* list of the texts pasted onto the source image, in order
draw_outlined_text(template, array, current_state, content) ==
    [array EXCEPT !.px = Append(@, [id |-> template.id, content |-> content,
                                    position |-> position(current_state),
                                    text_size |-> current_state.text_size])]

\* GifFrame(image) of the image that render_frame drew on: to_image carries
\* the duration into image.info and GifFrame.__init__ reads it back
new_frame(template, image, current_state, content) ==
    [image |-> draw_outlined_text(template, image.image, current_state, content),
     duration |-> image.duration]

\* GifSequence.__setitem__(key, frame), 0-based
setitem(sequence, key, frame) ==
    [frames_array |-> [sequence.frames_array EXCEPT ![key + 1] = frame.image],
     durations_array |-> [sequence.durations_array EXCEPT ![key + 1] = frame.duration]]

\* the end of render_frame: the frame returned and the sequence as the call
\* leaves it
render_frame_end(sequence, frame_ind, frame, inplace) ==
    [raised |-> "", frame |-> Some(frame),
     sequence |-> IF inplace THEN setitem(sequence, frame_ind, frame) ELSE sequence]

\* TextAnimationTemplate.render_frame: interpolate runs first, and its
\* AssertionError leaves the sequence as it is
render_frame(template, sequence, frame_ind, content, inplace) ==
    IF interpolate(template.keyframes, frame_ind) = AssertionError
    THEN [raised |-> AssertionError.raised, frame |-> None, sequence |-> sequence]
    ELSE render_frame_end(sequence, frame_ind,
                          new_frame(template, getitem_int(sequence, frame_ind),
                                    interpolate(template.keyframes, frame_ind), content),
                          inplace)

\* the loop of TextAnimationTemplate.render over enumerate(sequence);
\* render_frames_append is the body with the result r of render_frame
RECURSIVE render_frames_loop(_, _, _, _, _, _)
RECURSIVE render_frames_append(_, _, _, _, _, _)
render_frames_append(template, content, frame_ind, rendered_frames, inplace, r) ==
    IF r.raised # ""
    THEN [raised |-> r.raised, rendered_frames |-> rendered_frames, sequence |-> r.sequence]
    ELSE render_frames_loop(template, r.sequence, content, frame_ind + 1,
                            Append(rendered_frames, Val(r.frame)), inplace)

render_frames_loop(template, sequence, content, frame_ind, rendered_frames, inplace) ==
    IF frame_ind >= Len(sequence.frames_array)
    THEN [raised |-> "", rendered_frames |-> rendered_frames, sequence |-> sequence]
    ELSE render_frames_append(template, content, frame_ind, rendered_frames, inplace,
                              render_frame(template, sequence, frame_ind, content, inplace))

\* the return of TextAnimationTemplate.render: from_frames of the rendered
\* frames, and the sequence passed in as the loop left it
render_return(r, passed) ==
    [raised |-> r.raised, sequence |-> r.sequence, passed |-> passed]

\* an exception of render_frame ends render before from_frames
render_end(loop) ==
    IF loop.raised # ""
    THEN [raised |-> loop.raised, sequence |-> None, passed |-> loop.sequence]
    ELSE render_return(from_frames(loop.rendered_frames), loop.sequence)

\* TextAnimationTemplate.render: the sequence returned and the sequence
\* passed in as the call leaves it
template_render(template, sequence, content) ==
    render_end(render_frames_loop(template, sequence, content, 0, <<>>, FALSE))

\* render_options as a dict: (template id, content) pairs in insertion order
Dict(items) == [kind |-> "dict", items |-> items]

\* list(templates_dict.keys())
List(items) == [kind |-> "list", items |-> items]

\* the loop of MemeAnimationTemplate.render over render_options.items():
\* the name sequence is rebound to each result r, so only the first
\* template is handed the object the caller passed
RECURSIVE meme_render_loop(_, _, _, _)
RECURSIVE meme_render_rebind(_, _, _, _)
meme_render_rebind(dict, items, passed, r) ==
    IF r.raised # ""
    THEN [raised |-> r.raised, sequence |-> None, passed |-> passed]
    ELSE meme_render_loop(dict, Val(r.sequence), Tail(items), passed)

RECURSIVE meme_render_rest(_, _, _, _, _)
meme_render_rest(dict, sequence, items, passed, template) ==
    IF template = None
    THEN [raised |-> "KeyError", sequence |-> None, passed |-> passed]
    ELSE meme_render_rebind(dict, items, passed,
                            template_render(Val(template), sequence, Head(items)[2]))

meme_render_loop(dict, sequence, items, passed) ==
    IF items = <<>>
    THEN [raised |-> "", sequence |-> Some(sequence), passed |-> passed]
    ELSE meme_render_rest(dict, sequence, items, passed, dict_get(dict, Head(items)[1]))

\* the first turn of that loop, on the object the caller passed
meme_render_first(dict, items, passed, r) ==
    IF r.raised # ""
    THEN [raised |-> r.raised, sequence |-> None, passed |-> r.passed]
    ELSE meme_render_loop(dict, Val(r.sequence), Tail(items), r.passed)

meme_render_begin(dict, sequence, items, template) ==
    IF template = None
    THEN [raised |-> "KeyError", sequence |-> None, passed |-> sequence]
    ELSE meme_render_first(dict, items, sequence,
                           template_render(Val(template), sequence, Head(items)[2]))

\* the return of MemeAnimationTemplate.render after at least one turn of
\* its loop: the name sequence was rebound to what from_frames built, so the
\* object returned is not the object the caller passed
meme_render_return(r) ==
    [raised |-> r.raised, sequence |-> r.sequence, passed |-> r.passed,
     same_object |-> FALSE]

\* MemeAnimationTemplate.render: a list has no items(); with an empty dict
\* the loop has no turn and the object passed in is returned. same_object
\* tells whether the object returned is the object passed in
meme_render(dict, sequence, render_options) ==
    IF render_options.kind # "dict"
    THEN [raised |-> "AttributeError", sequence |-> None, passed |-> sequence,
          same_object |-> FALSE]
    ELSE IF render_options.items = <<>>
    THEN [raised |-> "", sequence |-> Some(sequence), passed |-> sequence,
          same_object |-> TRUE]
    ELSE meme_render_return(
             meme_render_begin(dict, sequence, render_options.items,
                               dict_get(dict, Head(render_options.items)[1])))

\* zip(keys, text): as many pairs as the shorter of the two
zip(keys_, text) ==
    [i \in 1 .. (IF Len(keys_) < Len(text) THEN Len(keys_) ELSE Len(text)) |->
        <<keys_[i], text[i]>>]

\* templates_dict.keys()
keys(dict) == [i \in 1 .. Len(dict) |-> dict[i].id]

\* the last line of generate_meme.py: template.render(gif, dict(zip(...)))
\* and save
generate_render(template, gif, text) ==
    meme_render(template, gif, Dict(zip(keys(template), text)))

generate_save(r) == [raised |-> r.raised, output |-> r.sequence]

\* generate_meme.py run on a GIF file and its JSON document (None: the file
\* is missing) with the -t strings given (None: no -t at all); output is
\* the sequence saved
generate_meme(gif_file, json_file, text) ==
    IF gif_file = None
    THEN [raised |-> "FileNotFoundError", output |-> None]
    ELSE IF json_file = None
    THEN [raised |-> "FileNotFoundError", output |-> None]
    ELSE IF text = None
    THEN [raised |-> "TypeError", output |-> None]
    ELSE generate_save(generate_render(meme_deserialize(Val(json_file)), Val(gif_file),
                                       Val(text)))

\* the frames of the GIF opened: nothing drawn yet
RenderFrames ==
    {[image |-> GifArray(<<2, 2>>, <<>>), duration |-> d] : d \in {40, 100}}

\* the stores of the layers rendered
RenderStores ==
    {<<>>, <<[frame_ind |-> 0, x |-> Some(10), y |-> Some(10), text_size |-> Some(20)]>>}

\* the render_options of an API caller: contents for a subsequence of the
\* layers, or for a layer that does not exist
RenderOptions ==
    {<<>>, <<<<TemplateId(3), <<"a">>>>>>}
    \cup {<<<<TemplateId(n), c>>>> : n \in 1 .. 2, c \in RenderContents}
    \cup {<<<<TemplateId(1), c>>, <<TemplateId(2), d>>>> : c, d \in RenderContents}

\* args.text of a command line with 1 .. n -t strings (action="append":
\* one list entry per -t; with no -t args.text is None, never an empty list)
Texts(n) == UNION {[1 .. k -> {<<"a">>}] : k \in 1 .. n}

NoArgs == [gif |-> TRUE, json |-> TRUE, text |-> None]

\* a GIF of 1 .. MaxRenderFrames frames opened in the editor with one or two
\* layers, and the document on_click_save wrote for them
InitRender ==
    /\ gif_seq \in {GifSequence(images) :
                       images \in UNION {[1 .. n -> RenderFrames] : n \in 1 .. MaxRenderFrames}}
    /\ \E a, b \in RenderStores, two \in BOOLEAN :
          meme_template =
              IF two
              THEN <<[NewTextAnimationTemplate(TemplateId(1)) EXCEPT !.keyframes = a],
                     [NewTextAnimationTemplate(TemplateId(2)) EXCEPT !.keyframes = b]>>
              ELSE <<[NewTextAnimationTemplate(TemplateId(1)) EXCEPT !.keyframes = a]>>
    /\ serialized = Some(meme_serialize(meme_template))
    /\ restored = None
    /\ gif_left = None /\ gif_right = None /\ gif_sum = None
    /\ keyframes = <<>> /\ last = NoCall
    /\ KfIdle
    /\ UiIdle
    /\ TrackIdle
    /\ EdIdle
    /\ ClickIdle
    /\ PanelIdle

renderFrame == <<gif_left, gif_right, meme_template, serialized, restored, kfVars,
                 spiralVars, uiVars, trackVars, edVars, clickVars, panelVars>>

\* the record of a call: what ran, what it raised, the sequence it returned
\* or saved
Ran(op, raised, sequence, options, args) ==
    [op |-> op, raised |-> raised, sequence |-> sequence, options |-> options, args |-> args]

\* the caller's sequence and the record after a call of render that gave
\* r; the record also tells whether the object returned is gif_seq itself
AfterRender(op, items, r) ==
    /\ gif_sum' = Some([op |-> op, raised |-> r.raised, sequence |-> r.sequence,
                        options |-> items, args |-> NoArgs,
                        same_object |-> r.same_object])
    /\ gif_seq' = r.passed

\* meme_template.render(gif_seq, render_options) with a dict
Render(items) ==
    /\ AfterRender("render", items, meme_render(meme_template, gif_seq, Dict(items)))
    /\ UNCHANGED renderFrame

\* MainWindow.on_click_export: render is handed list(templates_dict.keys())
on_click_export ==
    /\ AfterRender("export", <<>>,
                   meme_render(meme_template, gif_seq, List(keys(meme_template))))
    /\ UNCHANGED renderFrame

AfterGenerate(args, r) ==
    gif_sum' = Some(Ran("generate_meme", r.raised, r.output, <<>>, args))

\* a run of generate_meme.py on the GIF and on the document saved
GenerateMeme(gif_exists, json_exists, text) ==
    /\ AfterGenerate([gif |-> gif_exists, json |-> json_exists, text |-> text],
                     generate_meme(IF gif_exists THEN Some(gif_seq) ELSE None,
                                   IF json_exists THEN serialized ELSE None, text))
    /\ UNCHANGED <<gif_seq, renderFrame>>

NextRender ==
    \/ \E items \in RenderOptions : Render(items)
    \/ on_click_export
    \/ \E gif_exists, json_exists \in BOOLEAN,
          text \in {None} \cup {Some(t) : t \in Texts(Len(meme_template) + MaxExtraTexts)} :
          GenerateMeme(gif_exists, json_exists, text)

SpecRender == InitRender /\ [][NextRender]_vars

-----------------------------------------------------------------------------
(* src/animator.py: the selected layer as an object of the layer set *)

\* most layers of the set and of a loaded document
MaxSelLayers == 3

\* a TextAnimationTemplate object: its id and its identity
TemplateObject(template_id, obj) == [id |-> template_id, obj |-> obj]

\* the identities of the objects the window refers to
LiveObjects == {meme_template[i].obj : i \in 1 .. Len(meme_template)} \cup {selected.obj}

\* the identity of the k-th object made while the objects of used are alive
RECURSIVE NewObject(_, _)
NewObject(used, k) ==
    LET first == CHOOSE n \in 1 .. Cardinality(used) + 1 : n \notin used
    IN  IF k = 1 THEN first ELSE NewObject(used \cup {first}, k - 1)

\* the documents load_animation_data is given: the layer ids of a saved
\* layer set, which holds at least one layer, in listing order
Documents ==
    {<<TemplateId(1)>>, <<TemplateId(2)>>, <<TemplateId(2), TemplateId(1)>>,
     <<TemplateId(1), TemplateId(2), TemplateId(3)>>}

\* most frames of the sequence opened and of a sequence loaded
MaxLoadLen == 2

\* what the Load dialog gives on_click_load: None for a path that is no
\* file (the dialog cancelled gives ""), or a GIF file of frames frames with
\* its sibling JSON document (None when there is none)
LoadFiles ==
    {None} \cup {Some([frames |-> n, json |-> j]) :
                    n \in 1 .. MaxLoadLen, j \in {None} \cup {Some(d) : d \in Documents}}

\* MainWindow.__init__ on a sequence of seq_len frames:
\* selected_text_template = templates_list[0], frame 0 shown
InitSelection ==
    /\ meme_template = <<TemplateObject(TemplateId(1), 1)>>
    /\ selected = meme_template[1]
    /\ ui_last = [op |-> "none", count_before |-> 0]
    /\ templates = <<>> /\ current_frame_index = 0
    /\ serialized = None /\ restored = None
    /\ keyframes = <<>> /\ last = NoCall
    /\ seq_len \in 1 .. MaxLoadLen
    /\ render_layers = <<>> /\ spiral = None /\ pc = "idle"
    /\ cur_frame = 0 /\ cur_layer = 0 /\ start_ind = 0 /\ rendered = <<>>
    /\ GifIdle /\ TrackIdle /\ EdIdle /\ ClickIdle /\ PanelIdle

selFrame == <<templates, serialized, restored, kfVars, render_layers, spiral, pc, cur_frame,
              cur_layer, start_ind, rendered, gifVars, trackVars, edVars,
              clickVars, panel, panel_last>>

\* what the handlers of the layer set leave alone
selView == <<current_frame_index, seq_len, status_message>>

\* MainWindow.change_selected_text_template: self.meme_template[template_id]
change_selected_text_template(dict, template_id) == Val(dict_get(dict, template_id))

\* MainWindow.on_click_add_text_template with the objects of the layers
AddTextTemplate ==
    /\ Len(meme_template) < MaxSelLayers
    /\ LET initial_template_id == TemplateId(1 + Len(meme_template))
       IN  /\ meme_template' = dict_set(meme_template,
                                        TemplateObject(initial_template_id,
                                                       NewObject(LiveObjects, 1)))
           /\ selected' = change_selected_text_template(meme_template', initial_template_id)
    /\ ui_last' = [op |-> "add", count_before |-> Len(meme_template)]
    /\ UNCHANGED <<selView, selFrame>>

\* MainWindow.on_click_delete_current_text_template with the objects of the
\* layers: remove_template deletes the key selected.id
DeleteCurrentTextTemplate ==
    /\ IF Len(meme_template) > 1
       THEN /\ meme_template' = dict_del(meme_template, selected.id)
            /\ selected' = change_selected_text_template(meme_template', meme_template'[1].id)
       ELSE UNCHANGED <<meme_template, selected>>
    /\ ui_last' = [op |-> "delete", count_before |-> Len(meme_template)]
    /\ UNCHANGED <<selView, selFrame>>

\* TemplateSelectionPanel.on_combo_change with an item of the selector, which
\* refresh_selector fills with the ids of the layer set after every change of
\* the selection
ComboChange(template_id) ==
    /\ selected' = change_selected_text_template(meme_template, template_id)
    /\ ui_last' = [op |-> "select", count_before |-> Len(meme_template)]
    /\ UNCHANGED <<meme_template, selView, selFrame>>

\* the objects MemeAnimationTemplate.deserialize makes for a document
deserialized_objects(document, used) ==
    MemeAnimationTemplate([i \in 1 .. Len(document) |->
                              TemplateObject(document[i], NewObject(used, i))])

load_animation_data_keeps_selection(document) ==
    /\ meme_template' = deserialized_objects(document, LiveObjects)
    /\ selected' = selected

\* MainWindow.load_animation_data
load_animation_data(document) ==
    /\ meme_template' = deserialized_objects(document, LiveObjects)
    /\ selected' = change_selected_text_template(meme_template', meme_template'[1].id)

\* MainWindow.load_new_sequence with a sequence of n frames: the slider's
\* maximum becomes n - 1, and a slider value above it is moved there, which
\* runs on_change_frame
load_new_sequence(n) ==
    /\ seq_len' = n
    /\ current_frame_index' = slider_bound(current_frame_index, n - 1)

\* MainWindow.on_click_load: "Loaded" stands for the message
\* "Loaded <file_path>"; the document is loaded after the sequence and the
\* message, and only when the JSON file exists
on_click_load(file) ==
    /\ IF file # None
       THEN /\ load_new_sequence(Val(file).frames)
            /\ status_message' = "Loaded"
            /\ IF Val(file).json # None
               THEN load_animation_data(Val(Val(file).json))
               ELSE UNCHANGED <<meme_template, selected>>
       ELSE /\ status_message' = "File does not exists"
            /\ UNCHANGED <<seq_len, current_frame_index, meme_template, selected>>
    /\ ui_last' = [op |-> IF file = None THEN "no file"
                          ELSE IF Val(file).json = None THEN "open" ELSE "load",
                   count_before |-> Len(meme_template)]
    /\ UNCHANGED selFrame

\* the frames slider moved: MainWindow.on_change_frame
SelectionSliderTo(index) ==
    /\ current_frame_index' = index
    /\ ui_last' = [op |-> "frame", count_before |-> Len(meme_template)]
    /\ UNCHANGED <<meme_template, selected, seq_len, status_message, selFrame>>

NextSelection ==
    \/ AddTextTemplate
    \/ DeleteCurrentTextTemplate
    \/ \E i \in 1 .. Len(meme_template) : ComboChange(meme_template[i].id)
    \/ \E file \in LoadFiles : on_click_load(file)
    \/ \E index \in 0 .. seq_len - 1 : SelectionSliderTo(index)

SpecSelection == InitSelection /\ [][NextSelection]_vars

-----------------------------------------------------------------------------
(* The keyframe store under its queries: interpolate and render_frame *)

\* frames of the sequence render_frame draws on
QueryLen == 3

\* the stores queried; the last one is deserialized from a document whose
\* second keyframe has the position [null, 4]
QueryStores ==
    {<<>>,
     <<[frame_ind |-> 0, x |-> Some(10), y |-> Some(10), text_size |-> Some(20)]>>,
     <<[frame_ind |-> 0, x |-> Some(10), y |-> Some(10), text_size |-> Some(20)],
       [frame_ind |-> 2, x |-> Some(50), y |-> Some(60), text_size |-> None]>>,
     <<[frame_ind |-> 0, x |-> Some(10), y |-> Some(10), text_size |-> Some(20)],
       [frame_ind |-> 2, x |-> None, y |-> Some(4), text_size |-> None]>>}

\* the layer that owns the store
QueryTemplate == [NewTextAnimationTemplate(TemplateId(1)) EXCEPT !.keyframes = keyframes]

InitQueries ==
    /\ keyframes \in QueryStores
    /\ last = NoCall
    /\ KfIdle
    /\ UiIdle
    /\ SerIdle
    /\ gif_seq = GifSequence([i \in 1 .. QueryLen |->
                                 [image |-> GifArray(<<2, 2>>, <<>>), duration |-> 40]])
    /\ gif_left = None /\ gif_right = None /\ gif_sum = None
    /\ TrackIdle /\ EdIdle /\ ClickIdle /\ PanelIdle

queryFrame == <<spiralVars, uiVars, serVars, gif_left, gif_right, gif_sum, trackVars,
                edVars, clickVars, panelVars>>

\* the position setter of TextAnimationKeyframe
set_position(kf, new_position) ==
    [kf EXCEPT !.x = Some(new_position[1]), !.y = Some(new_position[2])]

\* the object interpolate returns: 0 stands for an object made by the call,
\* k > 0 for the k-th keyframe object of the store
interpolate_returns_stored(kfs, frame_ind) ==
    IF \E k \in 1 .. Len(kfs) : kfs[k].frame_ind = frame_ind
    THEN CHOOSE k \in 1 .. Len(kfs) : kfs[k].frame_ind = frame_ind
    ELSE 0

interpolate_returns(kfs, frame_ind) == 0

\* the store after the position of the object obj was set
store_after_set(kfs, obj, new_position) ==
    IF obj = 0 THEN kfs ELSE [kfs EXCEPT ![obj] = set_position(@, new_position)]

\* the caller sets the position of the keyframe the last interpolate returned
ModifyInterpolated(new_position) ==
    /\ last.op = "interpolate" /\ last.result # None
    /\ keyframes' = store_after_set(keyframes,
                                    interpolate_returns(keyframes, last.frame_ind),
                                    new_position)
    /\ last' = [last EXCEPT !.op = "modify",
                            !.result = Some(set_position(Val(@), new_position))]
    /\ UNCHANGED <<gif_seq, queryFrame>>

\* template.render_frame(sequence, frame_ind, content, inplace); a frame is
\* drawn on in place while it holds no text yet
TemplateRenderFrame(frame_ind, inplace) ==
    /\ inplace => gif_seq.frames_array[frame_ind + 1].px = <<>>
    /\ LET r == render_frame(QueryTemplate, gif_seq, frame_ind, <<"a">>, inplace)
       IN  /\ gif_seq' = r.sequence
           /\ last' = [op |-> "render_frame", frame_ind |-> frame_ind, position |-> None,
                       text_size |-> None, raised |-> r.raised, result |-> r.frame]
    /\ UNCHANGED <<keyframes, queryFrame>>

\* collection.interpolate(frame_ind) with the sequence in view
QueryInterpolate(frame_ind) ==
    /\ last' = interpolate_call(keyframes, frame_ind)
    /\ UNCHANGED <<keyframes, gif_seq, queryFrame>>

NextQueries ==
    \/ \E f \in 0 .. QueryLen : QueryInterpolate(f)
    \/ \E p \in {<<7, 7>>} : ModifyInterpolated(p)
    \/ \E f \in 0 .. QueryLen - 1, inplace \in BOOLEAN : TemplateRenderFrame(f, inplace)

SpecQueries == InitQueries /\ [][NextQueries]_vars

-----------------------------------------------------------------------------
(* src/animator.py: the properties panels and Save *)

\* the texts typed into the x and the y field of the keyframe form
XTexts == {Empty, Txt(1), Bad}

YTexts == {Empty, Txt(4), Bad}

\* the texts typed into the frame field
FrameTexts == {Txt(0), Bad}

\* the texts typed into the stroke width field
StrokeWidthTexts == {Txt(3), Bad}

\* the colour buttons of the properties panel
ColorButtons == {"textColorButton", "backgroundColorButton", "strokeColorButton"}

\* the outcomes of the colour dialog: rejected, or accepted with a colour
DialogColors == {None, Some("#00ff00")}

\* most buttons that show another colour than the panel was built with
MaxColorEdits == 1

\* the buttons of widgets whose colour is not the one of the new panel
EditedColors(widgets) == {b \in ColorButtons : widgets[b] # NewPanel[b]}

\* MainWindow.__init__ with the template "Text 1", frame 0 shown, the panel
\* refreshed and a sequence of one frame opened
InitPanels ==
    /\ meme_template = <<InitialRefresh>>
    /\ serialized = None /\ restored = None
    /\ panel = refresh(InitialRefresh)
    /\ status_message = NoStatus
    /\ panel_last = NoPanelCall
    /\ keyframes = <<>> /\ last = NoCall
    /\ seq_len = 1
    /\ current_frame_index = 0
    /\ form = on_selected_frame_change(<<>>, 0)
    /\ ed_last = NoEdit
    /\ render_layers = <<>> /\ spiral = None /\ pc = "idle"
    /\ cur_frame = 0 /\ cur_layer = 0 /\ start_ind = 0 /\ rendered = <<>>
    /\ templates = <<TemplateId(1)>> /\ selected = TemplateId(1)
    /\ ui_last = [op |-> "none", count_before |-> 0]
    /\ gif_seq = GifSequence(<<[image |-> GifArray(<<2, 2>>, 0), duration |-> 40]>>)
    /\ gif_left = None /\ gif_right = None /\ gif_sum = None
    /\ TrackIdle
    /\ ClickIdle

panelFrame == <<kfVars, spiralVars, uiVars, restored, gifVars, trackVars, form,
               current_frame_index, clickVars>>

\* the record of a handler of the keyframe form
FormHandler(op) == [op |-> op, frame_ind |-> current_frame_index, raised |-> "",
                    adds |-> ed_last.adds]

\* the user types into the x field, which is enabled
xEdit_setText(text) ==
    /\ form.is_enabled
    /\ form' = [form EXCEPT !.xEdit = text]
    /\ ed_last' = FormHandler("type")
    /\ NoPanelHandler
    /\ UNCHANGED <<keyframes, current_frame_index, status_message, edFrame>>

\* the user types into the y field, which is enabled
yEdit_setText(text) ==
    /\ form.is_enabled
    /\ form' = [form EXCEPT !.yEdit = text]
    /\ ed_last' = FormHandler("type")
    /\ NoPanelHandler
    /\ UNCHANGED <<keyframes, current_frame_index, status_message, edFrame>>

\* TextTemplatePropertiesPanel.on_editing_finished on the widgets given
panel_on_editing_finished(widgets) ==
    /\ panel' = widgets
    /\ LET r == apply_panel(meme_template[1], widgets)
       IN  /\ meme_template' = <<r.template>>
           /\ panel_last' = [NoPanelCall EXCEPT !.op = "panel edit", !.raised = r.raised]
           /\ ed_last' = NoEdit
           /\ status_message' = IF r.raised = "ValueError"
                                THEN "Invalid properties for template. Please try again."
                                ELSE status_message
    /\ UNCHANGED <<serialized, panelFrame>>

\* the user types into the stroke width field and leaves it
strokeWidthEdit_editingFinished(text) ==
    panel_on_editing_finished([panel EXCEPT !.strokeWidthEdit = text])

\* the user changes the text: textChanged runs the handler
textValue_textChanged(text) ==
    panel_on_editing_finished([panel EXCEPT !.textValue = text])

\* ColorButton.set_color on one of the three buttons of the panel
set_color(widgets, button, color) == [widgets EXCEPT ![button] = color]

\* ColorButton.mousePressEvent with the right button: set_color(None), then
\* colorChangedFromDialog runs the panel's handler; QPushButton emits
\* pressed for the left button only
ColorButton_mousePressEvent(button) ==
    /\ Cardinality(EditedColors(set_color(panel, button, None))) <= MaxColorEdits
    /\ panel_on_editing_finished(set_color(panel, button, None))

\* ColorButton.on_color_picker, the slot of pressed: the dialog is accepted
\* with a colour, which is set and runs the panel's handler, or rejected
\* (None), which changes nothing
on_color_picker(button, chosen) ==
    IF chosen # None
    THEN /\ Cardinality(EditedColors(set_color(panel, button, chosen))) <= MaxColorEdits
         /\ panel_on_editing_finished(set_color(panel, button, chosen))
    ELSE /\ panel_last' = [NoPanelCall EXCEPT !.op = "color dialog"]
         /\ ed_last' = NoEdit
         /\ UNCHANGED <<meme_template, panel, status_message, serialized, panelFrame>>

\* MainWindow.on_click_save: file_chosen is whether the dialog returned a
\* path, denied whether writing the GIF raises PermissionError; the JSON file
\* is written before the GIF, and "Saved template" stands for the message
\* "Saved template to <file_path> and <gif_path>"
on_click_save(file_chosen, denied) ==
    /\ IF file_chosen
       THEN /\ panel_last' = [op |-> "save",
                              raised |-> IF denied THEN "PermissionError" ELSE "",
                              json_written |-> TRUE, gif_written |-> ~denied]
            /\ status_message' = "Saved template"
       ELSE /\ panel_last' = [NoPanelCall EXCEPT !.op = "save"]
            /\ status_message' = "File not saved"
    /\ ed_last' = NoEdit
    /\ UNCHANGED <<meme_template, panel, serialized, panelFrame>>

NextPanels ==
    \/ \E pos \in ClickPoints : mousePressEvent(pos)
    \/ \E text \in FrameTexts : frameEdit_setText(text)
    \/ \E text \in XTexts : xEdit_setText(text)
    \/ \E text \in YTexts : yEdit_setText(text)
    \/ \E text \in TextSizeTexts : textSizeEdit_setText(text)
    \/ on_editing_finished
    \/ \E text \in StrokeWidthTexts : strokeWidthEdit_editingFinished(text)
    \/ \E text \in {<<"hi">>} : textValue_textChanged(text)
    \/ \E button \in ColorButtons : ColorButton_mousePressEvent(button)
    \/ \E button \in ColorButtons, chosen \in DialogColors : on_color_picker(button, chosen)
    \/ \E file_chosen, denied \in BOOLEAN : on_click_save(file_chosen, denied)
    \/ on_click_reset
    \/ on_click_reset_all

SpecPanels == InitPanels /\ [][NextPanels]_vars

-----------------------------------------------------------------------------
(* Properties of the keyframe store *)

Fields == {"x", "y", "text_size"}

HasKeyframeAt(kfs, f) == \E i \in 1 .. Len(kfs) : kfs[i].frame_ind = f

KeyframeAt(kfs, f) == kfs[CHOOSE i \in 1 .. Len(kfs) : kfs[i].frame_ind = f]

IsNullPosition(p) == p = None \/ p = <<None, None>>

\* the value interpolate returned for a field
Returned(field) == Val(Val(last.result)[field])

\* C1: inserting a keyframe at an index that already holds one leaves exactly
\* one entry there, whose position is the new position unless that is null
\* and whose size is the new size unless that is null; a null field of the
\* new keyframe keeps the stored value.
C1_InsertMergesFields ==
    [][(last'.op = "insert" /\ HasKeyframeAt(keyframes, last'.frame_ind)) =>
         LET f   == last'.frame_ind
             old == KeyframeAt(keyframes, f)
         IN  /\ Cardinality({i \in 1 .. Len(keyframes') : keyframes'[i].frame_ind = f}) = 1
             /\ position(KeyframeAt(keyframes', f)) =
                    IF IsNullPosition(last'.position) THEN position(old)
                    ELSE last'.position
             /\ KeyframeAt(keyframes', f).text_size =
                    IF last'.text_size = None THEN old.text_size
                    ELSE last'.text_size]_vars

\* The part of C1 the code keeps: a keyframe that carries a position and a
\* null size, inserted at an occupied index, replaces the position and keeps
\* the stored size.
C1_PositionInsertKeepsSize ==
    [][(/\ last'.op = "insert" /\ last'.raised = ""
        /\ last'.text_size = None
        /\ HasKeyframeAt(keyframes, last'.frame_ind)) =>
         KeyframeAt(keyframes', last'.frame_ind).text_size =
             KeyframeAt(keyframes, last'.frame_ind).text_size]_vars

\* C2: the stored keyframes are in strictly ascending frame-index order, so
\* no two of them share a frame index.
C2_SortedUnique ==
    \A i \in 1 .. Len(keyframes) - 1 :
        keyframes[i].frame_ind < keyframes[i + 1].frame_ind

\* three keyframes are stored and the last insert hit the occupied index 2,
\* the first slot of the list
C2_Witness ==
    /\ Len(keyframes) = 3
    /\ last.op = "insert" /\ last.raised = "" /\ last.frame_ind = 2
    /\ last.text_size = None
    /\ KeyframeAt(keyframes, 2).text_size # None

\* numerator and denominator of the straight line through the points i and
\* i + 1 of pts, taken at f
LineNum(pts, i, f) ==
    pts[i][2] * (pts[i + 1][1] - pts[i][1]) + (pts[i + 1][2] - pts[i][2]) * (f - pts[i][1])

LineDen(pts, i) == pts[i + 1][1] - pts[i][1]

Brackets(pts, f) == {i \in 1 .. Len(pts) - 1 : pts[i][1] < f /\ f < pts[i + 1][1]}

\* C3 as claimed: between two adjacent keyframes that define a field,
\* interpolate returns the value on the line through them rounded to the
\* nearest integer.
C3_RoundedToNearest ==
    last.op = "interpolate" =>
        \A field \in Fields :
            LET pts == Gather(keyframes, field)
            IN  \A i \in Brackets(pts, last.frame_ind) :
                    2 * Abs(Returned(field) * LineDen(pts, i)
                            - LineNum(pts, i, last.frame_ind)) <= LineDen(pts, i)

\* C3 as amended: between two adjacent keyframes that define a field,
\* interpolate returns the value np.interp computes in doubles for the line
\* through them, truncated toward zero to an integer: the value of the line
\* truncated toward zero or, where that value is an integer other than 0
\* which the double falls short of, the next integer toward zero.
C3_TruncatedTowardZero ==
    last.op = "interpolate" =>
        \A field \in Fields :
            LET pts == Gather(keyframes, field)
            IN  \A i \in Brackets(pts, last.frame_ind) :
                    LET r   == Returned(field)
                        d   == LineDen(pts, i)
                        num == LineNum(pts, i, last.frame_ind)
                    IN  \/ /\ num >= 0 => (r * d <= num /\ num < (r + 1) * d)
                           /\ num < 0  => (r * d >= num /\ num > (r - 1) * d)
                        \/ /\ num % d = 0
                           /\ num > 0 => r * d = num - d
                           /\ num < 0 => r * d = num + d
                           /\ num # 0

\* interpolate was asked for the frame midway between two keyframes 22 frames
\* apart, where the line is at an integer and the double just below it: the
\* value returned is that integer less one
C3_DoubleBelowInteger ==
    /\ last.op = "interpolate"
    /\ \E field \in Fields :
          LET pts == Gather(keyframes, field)
          IN  \E i \in Brackets(pts, last.frame_ind) :
                  /\ LineNum(pts, i, last.frame_ind) % LineDen(pts, i) = 0
                  /\ LineNum(pts, i, last.frame_ind) > 0
                  /\ Returned(field) * LineDen(pts, i)
                        = LineNum(pts, i, last.frame_ind) - LineDen(pts, i)

\* interpolate was asked for x strictly between two position keyframes where
\* the line has a negative, non-integer value
C3_Witness ==
    /\ last.op = "interpolate"
    /\ LET pts == Gather(keyframes, "x")
       IN  \E i \in Brackets(pts, last.frame_ind) :
               /\ LineNum(pts, i, last.frame_ind) < 0
               /\ LineNum(pts, i, last.frame_ind) % LineDen(pts, i) # 0

\* C4: before the first keyframe that defines a field interpolate returns
\* that keyframe's value, after the last one the last one's value.
C4_FlatExtrapolation ==
    last.op = "interpolate" =>
        \A field \in Fields :
            LET pts == Gather(keyframes, field)
            IN  pts # <<>> =>
                  /\ last.frame_ind < pts[1][1] => Returned(field) = pts[1][2]
                  /\ last.frame_ind > pts[Len(pts)][1] =>
                         Returned(field) = pts[Len(pts)][2]

\* interpolate was asked before the first of several position keyframes
\* whose first and last values differ
C4_Witness ==
    /\ last.op = "interpolate"
    /\ LET pts == Gather(keyframes, "y")
       IN  /\ Len(pts) >= 2
           /\ pts[1][2] # pts[Len(pts)][2]
           /\ last.frame_ind < pts[1][1]

\* C5: at the index of a stored keyframe interpolate returns every field
\* that keyframe defines with the stored value.
C5_ExactAtKeyframe ==
    last.op = "interpolate" =>
        \A i \in 1 .. Len(keyframes) :
            keyframes[i].frame_ind = last.frame_ind =>
                \A field \in Fields :
                    keyframes[i][field] # None =>
                        Val(last.result)[field] = keyframes[i][field]

\* interpolate was asked at index 5, where the store holds a keyframe with a
\* position off the line through its neighbours at 2 and 8 and no size
C5_Witness ==
    /\ last.op = "interpolate" /\ last.frame_ind = 5
    /\ Len(keyframes) = 3
    /\ keyframes[1].x = Some(0) /\ keyframes[3].x = Some(10)
    /\ keyframes[2].x = Some(50) /\ keyframes[2].y = Some(60)
    /\ keyframes[2].text_size = None
    /\ keyframes[3].text_size # None

\* the store with every field but one set to None, position being one field
RECURSIVE OnlyField(_, _)
OnlyField(kfs, field) ==
    IF kfs = <<>> THEN <<>>
    ELSE LET k == Head(kfs)
         IN  <<[frame_ind |-> k.frame_ind,
                x |-> IF field = "position" THEN k.x ELSE None,
                y |-> IF field = "position" THEN k.y ELSE None,
                text_size |-> IF field = "text_size" THEN k.text_size ELSE None]>>
             \o OnlyField(Tail(kfs), field)

ExampleStoreC6 ==
    <<[frame_ind |-> 2, x |-> Some(0), y |-> Some(0), text_size |-> Some(20)],
      [frame_ind |-> 8, x |-> Some(50), y |-> Some(60), text_size |-> None]>>

\* The part of C6 the code keeps: each field interpolate returns is the one
\* it returns on the store stripped of the other fields (position taken as
\* one field), and the store {2: (0,0), 20}, {8: (50,60), None} gives
\* (25, 30), 20 at index 5.
C6_InterpolationIndependent ==
    last.op = "interpolate" =>
        /\ position(Val(last.result)) =
               position(interpolate(OnlyField(keyframes, "position"), last.frame_ind))
        /\ Val(last.result).text_size =
               interpolate(OnlyField(keyframes, "text_size"), last.frame_ind).text_size
        /\ interpolate(ExampleStoreC6, 5) =
               [frame_ind |-> 5, x |-> Some(25), y |-> Some(30), text_size |-> Some(20)]

\* C6: position and size interpolate independently, the example store gives
\* (25, 30), 20 at index 5, and a keyframe may be made with a position and
\* no size or with a size and no position.
C6_FieldsIndependent ==
    /\ C6_InterpolationIndependent
    /\ last.op = "insert" =>
          /\ last.raised = ""
          /\ HasKeyframeAt(keyframes, last.frame_ind)
          /\ last.text_size # None =>
                 KeyframeAt(keyframes, last.frame_ind).text_size = last.text_size

\* C7: a field that no stored keyframe defines interpolates to its default,
\* position (20, 20) and size 50; on the empty store that is every field.
C7_Defaults ==
    last.op = "interpolate" =>
        /\ Gather(keyframes, "x") = <<>> =>
               (Val(last.result).x = Some(20) /\ Val(last.result).y = Some(20))
        /\ Gather(keyframes, "text_size") = <<>> =>
               Val(last.result).text_size = Some(50)

\* interpolate ran on a store whose keyframes define a position and no size
C7_Witness ==
    /\ last.op = "interpolate"
    /\ Len(keyframes) >= 2
    /\ Gather(keyframes, "x") # <<>>
    /\ Gather(keyframes, "text_size") = <<>>

-----------------------------------------------------------------------------
(* Properties of render_spiral *)

Min(a, b) == IF a < b THEN a ELSE b

\* the frame indices in the order render_spiral first drew on them
VisitOrder ==
    LET firsts == SelectSeq(rendered, LAMBDA e : e[2] = render_layers[1])
    IN  [i \in 1 .. Len(firsts) |-> firsts[i][1]]

\* the k-th element of the interleave of a, a+1, ..., n-1 with a-1, ..., 0
\* that starts with the forward range: alternating while both last, then
\* the rest of the longer one
Interleaved(a, n, k) ==
    LET m == Min(n - a, a)
    IN  IF k <= 2 * m
        THEN IF k % 2 = 1 THEN a + (k - 1) \div 2 ELSE a - k \div 2
        ELSE IF n - a > a THEN a + m + (k - 2 * m - 1)
             ELSE a - m - 1 - (k - 2 * m - 1)

InterleaveOrder ==
    \A k \in 1 .. Len(VisitOrder) : VisitOrder[k] = Interleaved(start_ind, seq_len, k)

\* C8 as claimed: the frames are drawn in the interleave of the forward and
\* the backward range, forward element first, and for a = 4, n = 10 the
\* order is 4,5,3,6,2,7,1,8,0,9.
C8_SpiralOrderAsClaimed ==
    /\ InterleaveOrder
    /\ (pc = "done" /\ start_ind = 4 /\ seq_len = 10) =>
           VisitOrder = <<4, 5, 3, 6, 2, 7, 1, 8, 0, 9>>

\* C8 as amended: the frames are drawn in the interleave of the forward and
\* the backward range, forward element first, all n of them by the end, and
\* for a = 4, n = 10 the order is 4,3,5,2,6,1,7,0,8,9.
C8_SpiralOrder ==
    /\ InterleaveOrder
    /\ pc = "done" => Len(VisitOrder) = seq_len
    /\ (pc = "done" /\ start_ind = 4 /\ seq_len = 10) =>
           VisitOrder = <<4, 3, 5, 2, 6, 1, 7, 0, 8, 9>>

\* render_spiral has returned from a call with current_ind 4 on 10 frames
\* and two layers
C8_Witness ==
    /\ pc = "done" /\ start_ind = 4 /\ seq_len = 10
    /\ Len(render_layers) = 2
    /\ Len(rendered) = 20

\* the active frame is drawn with every layer before any other frame
ActiveFrameFirst ==
    \A i \in 1 .. Len(rendered) :
        IF i <= Len(render_layers)
        THEN rendered[i] = <<start_ind, render_layers[i]>>
        ELSE rendered[i][1] # start_ind

\* what a call of a refresh hook would be in the log of the calls
\* render_spiral makes
RefreshHookCall == <<-1, "refresh hook">>

\* C9: the active frame is drawn with every layer before any other frame,
\* the call that follows the draws of the active frame is the refresh hook,
\* before any neighbour frame is drawn, and by the end of the call the hook
\* has been called exactly once.
C9_HookFiresOnce ==
    /\ ActiveFrameFirst
    /\ Len(rendered) > Len(render_layers) =>
          rendered[Len(render_layers) + 1] = RefreshHookCall
    /\ pc = "done" =>
          Cardinality({i \in 1 .. Len(rendered) : rendered[i] = RefreshHookCall}) = 1

\* the ordering half of C9, which render_spiral keeps: the active frame is
\* drawn with every layer before any other frame
C9_ActiveFrameFirst == ActiveFrameFirst /\ (pc = "done" => Len(rendered) > 0)

\* C9 counterexample state: the call that follows the two draws of the
\* active frame, which has frames on both sides, is the draw of a
\* neighbour frame
C9_NeighbourDrawnWithoutHook ==
    /\ pc = "frame"
    /\ Len(render_layers) = 2
    /\ start_ind > 0 /\ start_ind < seq_len - 1
    /\ Len(rendered) = 3
    /\ rendered[3][1] # start_ind
    /\ rendered[3] # RefreshHookCall

-----------------------------------------------------------------------------
(* Properties of the layer set *)

\* C10: the layer set always holds at least one layer, and a delete taken
\* when exactly one layer exists changes neither the layer list nor the
\* selected layer.
C10_AtLeastOneLayer ==
    /\ [](Len(templates) >= 1)
    /\ [][(ui_last'.op = "delete" /\ Len(templates) = 1) =>
            (templates' = templates /\ selected' = selected)]_vars

\* delete was clicked with a single layer left, after layers had been added
\* and deleted
C10_Witness ==
    /\ ui_last.op = "delete" /\ ui_last.count_before = 1
    /\ Len(templates) = 1
    /\ templates # <<TemplateId(1)>>

\* C11: an add-layer action gives the new layer the id "Text " + (count
\* before + 1), an id no layer of the set has yet, replaces no layer, and
\* grows the set by exactly one with the new layer last.
C11_AddAppendsFreshId ==
    [][ui_last'.op = "add" =>
         LET new_id == TemplateId(Len(templates) + 1)
         IN  /\ ~Contains(templates, new_id)
             /\ Len(templates') = Len(templates) + 1
             /\ Take(templates', Len(templates)) = templates
             /\ templates'[Len(templates')] = new_id]_vars

\* The part of C11 the code keeps: the id handed to add_template is "Text " +
\* (count before + 1), it is the selected layer afterwards, and it is in the
\* set.
C11_AddUsesCountPlusOne ==
    [][ui_last'.op = "add" =>
         /\ selected' = TemplateId(Len(templates) + 1)
         /\ Contains(templates', selected')]_vars

-----------------------------------------------------------------------------
(* Properties of serialization *)

StyleFields == {"font_path", "text_color", "background_color", "stroke_width",
                "stroke_color"}

\* C12: deserialize of a serialized layer set gives the layers back in the
\* same order, each with the same id, the same keyframes (indices, order,
\* position and size, null ones included) and the same font, text color,
\* background color, stroke width and stroke color.
C12_RoundTrip ==
    restored # None =>
        /\ Len(Val(restored)) = Len(meme_template)
        /\ \A i \in 1 .. Len(meme_template) :
              LET a == meme_template[i]
                  b == Val(restored)[i]
              IN  /\ b.id = a.id
                  /\ Len(b.keyframes) = Len(a.keyframes)
                  /\ \A k \in 1 .. Len(a.keyframes) :
                        /\ b.keyframes[k].frame_ind = a.keyframes[k].frame_ind
                        /\ position(b.keyframes[k]) = position(a.keyframes[k])
                        /\ b.keyframes[k].text_size = a.keyframes[k].text_size
                  /\ \A field \in StyleFields : b[field] = a[field]

\* a set of two layers was restored, "Text 2" first, whose second layer has a
\* keyframe with a null position, one with a null size, and a changed style
C12_Witness ==
    /\ restored # None
    /\ Len(Val(restored)) = 2
    /\ Val(restored)[1].id = TemplateId(2)
    /\ LET t == meme_template[2]
       IN  /\ Len(t.keyframes) = 2
           /\ t.keyframes[1].x = None /\ t.keyframes[1].text_size # None
           /\ t.keyframes[2].x # None /\ t.keyframes[2].text_size = None
           /\ t.stroke_width = 0 /\ t.background_color # None

-----------------------------------------------------------------------------
(* Properties of GifSequence *)

\* the sum was taken of gif_seq[0:k] and gif_seq[k:len], both non-empty
IsSplitSum(k) ==
    /\ gif_sum # None
    /\ 0 < k /\ k < Len(gif_seq.frames_array)
    /\ Val(gif_left).origin = <<"slice", 0, k>>
    /\ Val(gif_right).origin = <<"slice", k, Len(gif_seq.frames_array)>>

\* C13: for every split index k that gives two non-empty halves, s[0:k] +
\* s[k:len] is a sequence of the length of s with the frame image and the
\* duration of s at every index.
C13_SliceConcat ==
    \A k \in 1 .. MaxGifLen :
        IsSplitSum(k) =>
            /\ Val(gif_sum).raised = ""
            /\ LET r == Val(Val(gif_sum).sequence)
               IN  /\ Len(r.frames_array) = Len(gif_seq.frames_array)
                   /\ Len(r.durations_array) = Len(gif_seq.durations_array)
                   /\ \A i \in 1 .. Len(gif_seq.frames_array) :
                         /\ r.frames_array[i] = gif_seq.frames_array[i]
                         /\ r.durations_array[i] = gif_seq.durations_array[i]

\* a sequence of three frames with two images and two durations was split
\* after its first frame and put together again
C13_Witness ==
    /\ IsSplitSum(1)
    /\ Len(gif_seq.frames_array) = 3
    /\ gif_seq.frames_array[1] # gif_seq.frames_array[2]
    /\ gif_seq.durations_array[2] # gif_seq.durations_array[3]

FrameShape(operand) == Val(operand).sequence.frames_array[1].shape

\* C20: adding two sequences whose frames differ in dimensions raises an
\* error and yields no sequence, and the evaluation leaves both operands as
\* they were.
C20_MismatchRaises ==
    /\ []((gif_sum # None /\ FrameShape(gif_left) # FrameShape(gif_right)) =>
            (Val(gif_sum).raised = "ValueError" /\ Val(gif_sum).sequence = None))
    /\ [][(gif_sum = None /\ gif_sum' # None) =>
            (gif_left' = gif_left /\ gif_right' = gif_right)]_vars

\* a two-frame slice of 2x2 frames was added to an opened sequence of 2x3
\* frames
C20_Witness ==
    /\ gif_sum # None
    /\ Len(Val(gif_left).sequence.frames_array) = 2
    /\ FrameShape(gif_left) = <<2, 2>>
    /\ Val(gif_right).origin = <<"open">>
    /\ FrameShape(gif_right) = <<2, 3>>

-----------------------------------------------------------------------------
(* Properties of the tracker *)

\* the step is a track_frame call that reached Tracker.update, which
\* reported failure
FailedTrackStep ==
    /\ track_last'.steps = track_last.steps + 1
    /\ track_last'.outcome \in {"written", "TypeError"}
    /\ ~track_last'.ok

\* the part of C14 about the tracker, which holds: a tracking step whose
\* tracker update fails gets a zero delta and leaves the tracker with its
\* rectangle cleared, inactive and marked failed
C14_FailedStepClearsRegion ==
    [][FailedTrackStep =>
         /\ track_last'.delta = QPoint0
         /\ tracker'.begin = QPoint0 /\ tracker'.end = QPoint0
         /\ tracker'.failed /\ ~active(tracker')]_vars

\* C14: a tracking step whose tracker update fails gets a zero delta, leaves
\* the tracker with its rectangle cleared, inactive and marked failed, and
\* leaves every keyframe stored at a frame index earlier than the frame it
\* started from as it was; the step replaces the position of no keyframe
\* of the store.
C14_FailedStepKeepsKeyframes ==
    [][FailedTrackStep =>
         /\ track_last'.delta = QPoint0
         /\ tracker'.begin = QPoint0 /\ tracker'.end = QPoint0
         /\ tracker'.failed /\ ~active(tracker')
         /\ \A i \in 1 .. Len(keyframes) :
               keyframes[i].frame_ind < track_last'.from_frame =>
                   \E j \in 1 .. Len(keyframes') : keyframes'[j] = keyframes[i]
         /\ \A i \in 1 .. Len(keyframes) :
               \E j \in 1 .. Len(keyframes') :
                   /\ keyframes'[j].frame_ind = keyframes[i].frame_ind
                   /\ position(keyframes'[j]) = position(keyframes[i])]_vars

\* the earlier-index half of C14 alone: a failed step changes no keyframe
\* stored at a frame index earlier than the frame it started from
C14_FailedStepKeepsEarlierKeyframes ==
    [][FailedTrackStep =>
         \A i \in 1 .. Len(keyframes) :
             keyframes[i].frame_ind < track_last'.from_frame =>
                 \E j \in 1 .. Len(keyframes') : keyframes'[j] = keyframes[i]]_vars

\* what track_frame does on a failed update: it changes no keyframe at any
\* frame index but the one it moves to, and writes there, over what was
\* stored, the position in effect at the frame it started from
C14_FailedStepWritesReference ==
    [][FailedTrackStep =>
         LET to == track_last'.to_frame
         IN  /\ \A i \in 1 .. Len(keyframes) :
                   keyframes[i].frame_ind # to =>
                       \E j \in 1 .. Len(keyframes') : keyframes'[j] = keyframes[i]
             /\ \A j \in 1 .. Len(keyframes') :
                   keyframes'[j].frame_ind # to =>
                       \E i \in 1 .. Len(keyframes) : keyframes[i] = keyframes'[j]
             /\ track_last'.outcome = "written" =>
                   position(KeyframeAt(keyframes', to)) =
                       position(interpolate(keyframes, current_frame_index))]_vars

\* C14 counterexample state: a step back from frame 1 failed with keyframes
\* stored at frames 0 and 1; the keyframe at frame 0, which held the
\* position (2,2) of a click, now has the position (6,4) of frame 1
C14_FailedStepBackOverwrote ==
    /\ track_last.outcome = "written" /\ ~track_last.ok
    /\ track_last.from_frame = 1 /\ track_last.to_frame = 0
    /\ track_last.reference = <<6, 4>>
    /\ track_last.replaced = Some(<<Some(2), Some(2)>>)
    /\ Len(keyframes) = 2
    /\ keyframes[1].frame_ind = 0
    /\ position(keyframes[1]) = <<Some(6), Some(4)>>
    /\ position(keyframes[2]) = <<Some(6), Some(4)>>
    /\ tracker.failed

-----------------------------------------------------------------------------
(* Properties of the keyframe editor *)

\* the step is a click in the viewer at a frame that holds no keyframe,
\* while some keyframe of the store defines a size
ClickAtNewFrame ==
    /\ ed_last'.op = "click"
    /\ ~HasKeyframeAt(keyframes, current_frame_index)
    /\ Gather(keyframes, "text_size") # <<>>

\* C15: a click at a frame without a keyframe creates a keyframe there whose
\* stored size is the size in effect at that frame (after position and size
\* 20 were set at frame 0, a click at frame 1 stores size 20 at frame 1), and
\* get_keyframe returns it with that size.
C15_ClickStoresSizeInEffect ==
    [][ClickAtNewFrame =>
         LET got == get_keyframe(keyframes', current_frame_index)
         IN  /\ got # None
             /\ Val(got).text_size = interpolate(keyframes, current_frame_index).text_size]_vars

\* The part of C15 the code keeps: the click creates a keyframe at the frame
\* with the clicked position, and the size interpolate gives at that frame
\* is the one it gave before the click.
C15_ClickKeepsInterpolatedSize ==
    [][ClickAtNewFrame =>
         /\ HasKeyframeAt(keyframes', current_frame_index)
         /\ KeyframeAt(keyframes', current_frame_index).x # None
         /\ interpolate(keyframes', current_frame_index).text_size =
                interpolate(keyframes, current_frame_index).text_size]_vars

\* the step is a click on the toggle button that reached remove_keyframe
RemoveStep == ed_last'.op = "toggle remove" /\ ed_last'.raised = ""

\* the store kfs without the keyframes at index f, the others in their order
Without(kfs, f) == SelectSeq(kfs, LAMBDA k : k.frame_ind # f)

\* The part of C18 about the store: remove deletes the keyframe at the index
\* it is given when one exists, leaves every other keyframe and their order
\* as they were, and leaves the whole store as it was when none exists.
C18_RemoveDeletesOnlyThatIndex ==
    [][RemoveStep =>
         /\ ~HasKeyframeAt(keyframes', ed_last'.frame_ind)
         /\ keyframes' = Without(keyframes, ed_last'.frame_ind)
         /\ ~HasKeyframeAt(keyframes, ed_last'.frame_ind) => keyframes' = keyframes]_vars

\* C18: remove deletes the keyframe at the given index when one exists,
\* leaves every other keyframe and the ascending order unchanged, leaves the
\* store unchanged without failing when none exists, and the Remove Keyframe
\* toggle applies it to the current frame.
C18_ToggleRemovesAtCurrentFrame ==
    [][ed_last'.op = "toggle remove" =>
         /\ ed_last'.raised = ""
         /\ keyframes' = Without(keyframes, current_frame_index)
         /\ \A i \in 1 .. Len(keyframes') - 1 :
               keyframes'[i].frame_ind < keyframes'[i + 1].frame_ind]_vars

\* a step of mousePressEvent at pos with tracker mode off that changed something
PressStep(pos) ==
    /\ ~tracker_mode
    /\ click_last'.op \in {"press select", "press move"}
    /\ click_last'.pos = pos
    /\ vars' # vars

\* the layers other than the selected one whose on-screen box contains pos
OtherHits(pos) ==
    {i \in 1 .. Len(meme_template) :
        /\ meme_template[i].id # selected
        /\ \E r \in 1 .. Len(text_template_to_rect) :
              /\ text_template_to_rect[r].id = meme_template[i].id
              /\ contains(text_template_to_rect[r].rect, pos)}

\* the keyframes of every layer, by layer
LayerKeyframes(dict) == [i \in 1 .. Len(dict) |-> <<dict[i].id, dict[i].keyframes>>]

\* the state of test_click_to_select before its last click: Text 1 moved to
\* (300,300), Text 2 added and selected, the viewer repainted since
ClickToSelectScene ==
    /\ Len(meme_template) = 2
    /\ meme_template[1].id = TemplateId(1)
    /\ meme_template[2].id = TemplateId(2) /\ meme_template[2].keyframes = <<>>
    /\ LET keyframe == interpolate(meme_template[1].keyframes, current_frame_index)
       IN  keyframe.x = Some(300) /\ keyframe.y = Some(300)
    /\ selected = TemplateId(2)
    /\ text_template_to_rect = paintEvent(meme_template, current_frame_index)

\* C16 as stated: with tracker mode off, a click inside the on-screen box of
\* any layer other than the selected one selects that layer and changes no
\* keyframe; a keyframe is written only when no other layer's box is hit; in
\* the scene of test_click_to_select the click at (300,300) selects Text 1.
C16_ClickSelectsEveryHitLayer ==
    [][\A pos \in PressPoints :
          PressStep(pos) =>
             /\ \A i \in OtherHits(pos) :
                   /\ selected' = meme_template[i].id
                   /\ LayerKeyframes(meme_template') = LayerKeyframes(meme_template)
             /\ (LayerKeyframes(meme_template') # LayerKeyframes(meme_template)
                   => OtherHits(pos) = {})]_vars

\* C16 amended: the click selects the first layer, in listing order, among the
\* layers other than the selected one whose box, as last painted, contains
\* the point, and changes no keyframe; a keyframe is written only when no
\* other layer's box is hit, and then only in the selected layer; in the
\* scene of test_click_to_select, the viewer repainted, the click at
\* (300,300) selects Text 1.
C16_ClickSelectsFirstHitLayer ==
    [][\A pos \in PressPoints :
          PressStep(pos) =>
             /\ OtherHits(pos) # {} =>
                   /\ \E i \in OtherHits(pos) :
                         /\ \A j \in OtherHits(pos) : i <= j
                         /\ selected' = meme_template[i].id
                   /\ LayerKeyframes(meme_template') = LayerKeyframes(meme_template)
             /\ (LayerKeyframes(meme_template') # LayerKeyframes(meme_template) =>
                   /\ OtherHits(pos) = {}
                   /\ selected' = selected
                   /\ \A i \in 1 .. Len(meme_template) :
                         meme_template[i].id # selected => meme_template'[i] = meme_template[i])
             /\ (ClickToSelectScene /\ pos = <<300, 300>> => selected' = TemplateId(1))]_vars

\* C16 witness: in the scene of test_click_to_select, after the click at
\* (300,300), Text 1 is selected and Text 2 has no keyframe
C16_Witness ==
    /\ click_last.op = "press select" /\ click_last.pos = <<300, 300>>
    /\ ~tracker_mode
    /\ Len(meme_template) = 2
    /\ meme_template[2].id = TemplateId(2) /\ meme_template[2].keyframes = <<>>
    /\ selected = TemplateId(1)
    /\ text_template_to_rect = paintEvent(meme_template, current_frame_index)
    /\ \E r \in 1 .. Len(text_template_to_rect) :
          /\ text_template_to_rect[r].id = TemplateId(1)
          /\ contains(text_template_to_rect[r].rect, <<300, 300>>)

\* the clicks of test_click_to_select without its waits: the second press
\* comes before any paint, finds no box and moves Text 2
C16_PressBeforePaintMoves ==
    /\ click_last.op = "press move" /\ click_last.pos = <<300, 300>>
    /\ text_template_to_rect = <<>>
    /\ Len(meme_template) = 2
    /\ selected = TemplateId(2)
    /\ LET keyframe == interpolate(meme_template[1].keyframes, current_frame_index)
       IN  keyframe.x = Some(300) /\ keyframe.y = Some(300)
    /\ meme_template[2].keyframes # <<>>

\* a step of MemeAnimationTemplate.render with a dict of contents for
\* layers of the set
RenderStep ==
    /\ gif_sum' # None
    /\ Val(gif_sum').op = "render"
    /\ \A k \in 1 .. Len(Val(gif_sum').options) :
          \E i \in 1 .. Len(meme_template) : meme_template[i].id = Val(gif_sum').options[k][1]

\* the sequence after holds the frames of the sequence before with every
\* layer of items drawn exactly once on every frame, and nothing else; the
\* length and the durations are those of the sequence before
Composited(after, before, items) ==
    /\ Len(after.frames_array) = Len(before.frames_array)
    /\ after.durations_array = before.durations_array
    /\ \A f \in 1 .. Len(before.frames_array) :
          LET px == after.frames_array[f].px
          IN  /\ Len(px) = Len(before.frames_array[f].px) + Len(items)
              /\ \A k \in 1 .. Len(items) :
                    /\ Cardinality({d \in 1 .. Len(px) : px[d].id = items[k][1]}) = 1
                    /\ \E d \in 1 .. Len(px) :
                          /\ px[d].id = items[k][1]
                          /\ px[d].content = items[k][2]

\* C17: after render the sequence object that was passed in holds the
\* composited frames: every layer with content drawn exactly once on every
\* frame, length and durations unchanged.
C17_RenderDrawsInPlace ==
    [][RenderStep => Composited(gif_seq', gif_seq, Val(gif_sum').options)]_vars

\* what render does instead: the composite is in the sequence it returns,
\* which is a new object unless the dict is empty, and the sequence passed
\* in is left as it was
C17_RenderReturnsComposite ==
    [][RenderStep =>
          /\ Val(gif_sum').raised = ""
          /\ Composited(Val(Val(gif_sum').sequence), gif_seq, Val(gif_sum').options)
          /\ Val(gif_sum').same_object = (Val(gif_sum').options = <<>>)
          /\ gif_seq' = gif_seq]_vars

\* C17 counterexample state: two layers rendered over two frames of
\* different durations; the sequence returned is another object with two
\* draws on each frame, the sequence passed in has none
C17_PassedSequenceUndrawn ==
    /\ gif_sum # None
    /\ Val(gif_sum).op = "render"
    /\ Val(gif_sum).raised = ""
    /\ ~Val(gif_sum).same_object
    /\ Len(Val(gif_sum).options) = 2
    /\ gif_seq.durations_array = <<40, 100>>
    /\ \A f \in 1 .. 2 :
          /\ Len(Val(Val(gif_sum).sequence).frames_array[f].px) = 2
          /\ gif_seq.frames_array[f].px = <<>>

\* a run of generate_meme.py
GenerateStep == gif_sum' # None /\ Val(gif_sum').op = "generate_meme"

\* C19 as stated: the command-line render fails and produces no output when
\* the number of strings differs from the number of layers of the document,
\* and when the document or the source sequence file is missing.
C19_MismatchOrMissingFails ==
    [][GenerateStep =>
          LET run == Val(gif_sum')
          IN  (\/ ~run.args.gif
               \/ ~run.args.json
               \/ run.args.text = None
               \/ Len(Val(run.args.text)) # Len(Val(serialized)))
              => run.raised # "" /\ run.sequence = None]_vars

\* C19, the part that holds: a missing source sequence or document, or no
\* strings at all, ends the run with an exception and no output; with both
\* files present the strings are paired with the layers by zip, so the run
\* succeeds and draws the first min(strings, layers) layers.
C19_MissingFileFails ==
    [][GenerateStep =>
          LET run == Val(gif_sum')
          IN  IF ~run.args.gif \/ ~run.args.json \/ run.args.text = None
              THEN run.raised # "" /\ run.sequence = None
              ELSE /\ run.raised = ""
                   /\ Composited(Val(run.sequence), gif_seq,
                                 zip(keys(meme_deserialize(Val(serialized))),
                                     Val(run.args.text)))]_vars

\* C19 counterexample state: a run with both files, two layers and one
\* string that saved an output
C19_FewerTextsRendered ==
    /\ gif_sum # None
    /\ Val(gif_sum).op = "generate_meme"
    /\ Val(gif_sum).args.gif /\ Val(gif_sum).args.json
    /\ Val(gif_sum).args.text # None
    /\ Len(Val(Val(gif_sum).args.text)) = 1
    /\ Len(Val(serialized)) = 2
    /\ Val(gif_sum).raised = ""
    /\ Val(gif_sum).sequence # None

-----------------------------------------------------------------------------
(* Properties of the tracking steps *)

\* the step is a call of track_frame
TrackStep == track_last'.steps = track_last.steps + 1

\* C21: the current frame index is always within [0, n-1], and a tracking
\* step whose target index is -1 or n changes neither the current frame
\* index nor the keyframes nor the tracker (its algorithm is not run).
C21_StepStaysInRange ==
    /\ [](0 <= current_frame_index /\ current_frame_index <= seq_len - 1)
    /\ [][TrackStep
          /\ (current_frame_index + track_last'.frame_diff = -1
              \/ current_frame_index + track_last'.frame_diff = seq_len)
          => /\ UNCHANGED <<current_frame_index, keyframes, tracker>>
             /\ track_last'.outcome \in {"inactive", "out of range"}]_vars

\* C21 witness: a forward step from the last frame with an active,
\* initialized tracker was refused
C21_Witness ==
    /\ track_last.outcome = "out of range"
    /\ track_last.frame_diff = 1
    /\ track_last.from_frame = seq_len - 1
    /\ current_frame_index = seq_len - 1
    /\ active(tracker) /\ tracker.kcf

\* the centre of a rectangle: the means of its corners, truncated
RectCentre(t) ==
    <<PyInt(t.begin[1] + t.end[1], 2), PyInt(t.begin[2] + t.end[2], 2)>>

\* the step is a track_frame call on which the tracker algorithm reported
\* success
SuccessfulTrackStep ==
    /\ TrackStep
    /\ track_last'.outcome = "written"
    /\ track_last'.ok

\* C22: a successful step from f to the adjacent g takes the position of
\* the explicit keyframe at f, or the interpolated position at f, as
\* reference; stores at g the position reference + (new centre - old
\* centre); keeps the size stored at g and every keyframe at another index;
\* and makes g the current frame.
C22_StepWritesReferencePlusDelta ==
    [][SuccessfulTrackStep =>
         LET f == current_frame_index
             g == f + track_last'.frame_diff
             reference == IF HasKeyframeAt(keyframes, f)
                          THEN position(KeyframeAt(keyframes, f))
                          ELSE position(interpolate(keyframes, f))
             delta == <<RectCentre(tracker')[1] - RectCentre(tracker)[1],
                        RectCentre(tracker')[2] - RectCentre(tracker)[2]>>
         IN  /\ g \in {f - 1, f + 1}
             /\ HasKeyframeAt(keyframes', g)
             /\ position(KeyframeAt(keyframes', g)) =
                   <<Some(Val(reference[1]) + delta[1]), Some(Val(reference[2]) + delta[2])>>
             /\ KeyframeAt(keyframes', g).text_size =
                   (IF HasKeyframeAt(keyframes, g)
                    THEN KeyframeAt(keyframes, g).text_size ELSE None)
             /\ \A i \in 1 .. Len(keyframes) :
                   keyframes[i].frame_ind # g =>
                       \E j \in 1 .. Len(keyframes') : keyframes'[j] = keyframes[i]
             /\ \A j \in 1 .. Len(keyframes') :
                   keyframes'[j].frame_ind # g =>
                       \E i \in 1 .. Len(keyframes) : keyframes[i] = keyframes'[j]
             /\ current_frame_index' = g]_vars

\* C22 witness: a successful step from frame 0, which holds an explicit
\* keyframe, onto frame 1, whose keyframe kept its size 20 and took the
\* position of frame 0 moved by a delta that is not zero
C22_Witness ==
    /\ track_last.outcome = "written" /\ track_last.ok
    /\ track_last.from_frame = 0 /\ track_last.to_frame = 1
    /\ track_last.delta # QPoint0
    /\ current_frame_index = 1
    /\ HasKeyframeAt(keyframes, 0) /\ HasKeyframeAt(keyframes, 1)
    /\ KeyframeAt(keyframes, 1).text_size = Some(20)
    /\ position(KeyframeAt(keyframes, 1)) =
          <<Some(Val(KeyframeAt(keyframes, 0).x) + track_last.delta[1]),
            Some(Val(KeyframeAt(keyframes, 0).y) + track_last.delta[2])>>

\* C23 as stated: a step requested while the tracker has no active region,
\* or while a region is being dragged and was not released yet, writes no
\* keyframe, does not run the tracker algorithm and keeps the current frame.
C23_StepOnlyWhenTrackingActive ==
    [][TrackStep /\ (~active(tracker) \/ track_last.region = "dragging")
          => /\ UNCHANGED <<current_frame_index, keyframes, tracker>>
             /\ track_last'.outcome \notin {"written", "TypeError"}]_vars

\* C23, the part that holds: a step requested while the tracker has no
\* active region changes nothing.
C23_InactiveStepDoesNothing ==
    [][TrackStep /\ ~active(tracker)
          => /\ UNCHANGED <<current_frame_index, keyframes, tracker>>
             /\ track_last'.outcome = "inactive"]_vars

\* C23 counterexample state: a step was taken and wrote a keyframe while
\* the region was being dragged, not released
C23_StepWhileDragging ==
    /\ track_last.outcome = "written"
    /\ track_last.region = "dragging"

\* C24 as stated: the tracker has an active region exactly when its begin
\* corner differs from its end corner.
C24_ActiveIffCornersDiffer ==
    active(tracker) <=> tracker.begin # tracker.end

\* C24 counterexample state: after a press without a drag the corners are
\* equal and the region counts as active
C24_PressWithoutDragIsActive ==
    /\ tracker_mode
    /\ tracker.begin = tracker.end
    /\ active(tracker)


-----------------------------------------------------------------------------
(* Properties of the properties panels and of Save *)

\* a text of the keyframe form is no integer
InvalidKeyframeField(f) ==
    "bad" \in {f.frameEdit.kind, f.xEdit.kind, f.yEdit.kind, f.textSizeEdit.kind}

\* the handler of the enabled keyframe form ran in this step
KeyframeEditStep == ed_last'.op = "edit" /\ form.is_enabled

\* the handler of the layer's properties panel ran in this step
LayerEditStep == panel_last'.op = "panel edit"

\* the five properties of the layer as the widgets hold them
PanelApplied(t, w) ==
    /\ t.text_value = w.textValue
    /\ t.stroke_width = (IF w.strokeWidthEdit.kind = "empty" THEN 0 ELSE w.strokeWidthEdit.val)
    /\ t.text_color = w.textColorButton
    /\ t.background_color = w.backgroundColorButton
    /\ t.stroke_color = w.strokeColorButton

\* C25 (as stated): an edit of the layer with a stroke width that is no
\* integer, and an edit of a keyframe with a frame, x, y or text size that is
\* no integer, changes neither the layer nor the keyframes and leaves the
\* status message of an invalid edit; every edit of the layer applies all of
\* its five properties or none
C25_InvalidFieldAbortsWithMessage ==
    [][/\ (LayerEditStep /\ panel'.strokeWidthEdit.kind = "bad") =>
              /\ meme_template' = meme_template
              /\ keyframes' = keyframes
              /\ status_message' = "Invalid properties for template. Please try again."
       /\ LayerEditStep =>
              \/ meme_template' = meme_template
              \/ PanelApplied(meme_template'[1], panel')
       /\ (KeyframeEditStep /\ InvalidKeyframeField(form)) =>
              /\ keyframes' = keyframes
              /\ meme_template' = meme_template
              /\ status_message' = "Invalid values for keyframe. Please try again."]_vars

\* C25 (what holds): an edit with a field that is no integer changes neither
\* the layer nor the keyframes, and an edit of the layer is applied in full or
\* not at all; the message is left whenever some int() raised ValueError
C25_InvalidFieldMutatesNothing ==
    [][/\ (LayerEditStep /\ panel'.strokeWidthEdit.kind = "bad") =>
              /\ meme_template' = meme_template
              /\ keyframes' = keyframes
              /\ status_message' = "Invalid properties for template. Please try again."
       /\ LayerEditStep =>
              \/ meme_template' = meme_template
              \/ PanelApplied(meme_template'[1], panel')
       /\ (KeyframeEditStep /\ InvalidKeyframeField(form)) =>
              /\ keyframes' = keyframes
              /\ meme_template' = meme_template
              /\ ValueErrorInForm(form) =>
                     status_message' = "Invalid values for keyframe. Please try again."]_vars

\* C25: the keyframe form was edited with an x that is no integer and an
\* empty y; the handler ended in TypeError and left no message of an invalid
\* edit
C25_InvalidXWithoutMessage ==
    /\ ed_last.op = "edit" /\ ed_last.raised = "TypeError"
    /\ form.xEdit.kind = "bad" /\ form.yEdit.kind = "empty"
    /\ status_message # "Invalid values for keyframe. Please try again."

\* C25: the layer's text was changed while the stroke width field held a text
\* that is no integer; the layer kept its text
C25_InvalidStrokeKeepsText ==
    /\ panel_last.op = "panel edit" /\ panel_last.raised = "ValueError"
    /\ panel.textValue # meme_template[1].text_value
    /\ status_message = "Invalid properties for template. Please try again."

\* the Save action ran in this step with a file chosen, and writing the GIF
\* raised PermissionError
DeniedSaveStep == panel_last'.op = "save" /\ panel_last'.raised = "PermissionError"

\* C26 (as stated): a save whose GIF may not be written leaves a status
\* message that reports the failure, writes no file, and leaves the sequence
\* and the layers unchanged
C26_DeniedSaveReportsFailure ==
    [][DeniedSaveStep =>
          /\ status_message' # "Saved template"
          /\ ~panel_last'.json_written /\ ~panel_last'.gif_written
          /\ gif_seq' = gif_seq /\ meme_template' = meme_template
          /\ keyframes' = keyframes]_vars

\* C26 (what holds): a save whose GIF may not be written leaves the sequence,
\* the layers and the keyframes unchanged and writes no GIF
C26_DeniedSaveKeepsMemory ==
    [][DeniedSaveStep =>
          /\ ~panel_last'.gif_written
          /\ gif_seq' = gif_seq /\ meme_template' = meme_template
          /\ keyframes' = keyframes]_vars

\* C26: a save was denied, the JSON file is written and the status message
\* reports a successful save
C26_DeniedSaveSaysSaved ==
    /\ panel_last.op = "save" /\ panel_last.raised = "PermissionError"
    /\ panel_last.json_written
    /\ status_message = "Saved template"


-----------------------------------------------------------------------------
(* Properties of the queries of the keyframe store *)

\* interpolate or render_frame ran in this step, or the keyframe interpolate
\* returned was modified
QueryStep == last'.op \in {"interpolate", "render_frame", "modify"}

\* C27: interpolate, render_frame and a modification of the keyframe that
\* interpolate returned leave the store with the same keyframes, fields and
\* order, also when interpolate raises; render_frame changes at most the
\* frame drawn on, and only in place
C27_QueriesNeverMutateStore ==
    [][QueryStep =>
          /\ keyframes' = keyframes
          /\ last'.op = "interpolate" =>
                 /\ gif_seq' = gif_seq
                 /\ IF last'.raised = ""
                    THEN Val(last'.result) = interpolate(keyframes, last'.frame_ind)
                    ELSE last'.result = None
          /\ (last'.op = "render_frame" /\ last'.raised # "") => gif_seq' = gif_seq
          /\ (last'.op = "render_frame" /\ last'.raised = "") =>
                 /\ \A i \in 1 .. QueryLen :
                        i # last'.frame_ind + 1 =>
                            gif_seq'.frames_array[i] = gif_seq.frames_array[i]
                 /\ Val(last'.result).image.px =
                        Append(gif_seq.frames_array[last'.frame_ind + 1].px,
                               [id |-> TemplateId(1), content |-> <<"a">>,
                                position |-> position(interpolate(keyframes, last'.frame_ind)),
                                text_size |-> interpolate(keyframes, last'.frame_ind).text_size])]_vars

\* C27: the keyframe interpolate returned for the index of a stored keyframe
\* was given another position, and the stored keyframe kept its own
C27_Witness ==
    /\ last.op = "modify"
    /\ \E k \in 1 .. Len(keyframes) :
          /\ keyframes[k].frame_ind = last.frame_ind
          /\ position(keyframes[k]) # position(Val(last.result))
    /\ \E i \in 1 .. QueryLen : gif_seq.frames_array[i].px # <<>>


-----------------------------------------------------------------------------
(* Properties of the spiral traversal *)

\* every frame index drawn on is an index of the sequence
DrawnInRange == \A i \in 1 .. Len(rendered) : rendered[i][1] \in 0 .. seq_len - 1

\* no layer is drawn twice on one frame
NoDrawRepeated ==
    \A i, j \in 1 .. Len(rendered) : i # j => rendered[i] # rendered[j]

\* every layer of the render options is drawn on every frame exactly once
EveryLayerOnEveryFrameOnce ==
    \A f \in 0 .. seq_len - 1, l \in 1 .. Len(render_layers) :
        Cardinality({i \in 1 .. Len(rendered) : rendered[i] = <<f, render_layers[l]>>}) = 1

\* C28: for every length n >= 1 and start index a in 0..n-1 the traversal
\* yields only indices of 0..n-1, none twice, and the call of render_spiral
\* ends, having drawn every layer on every frame exactly once
C28_SpiralVisitsEveryFrameOnce ==
    /\ [](DrawnInRange /\ NoDrawRepeated)
    /\ [](pc = "done" => EveryLayerOnEveryFrameOnce /\ Len(rendered) = seq_len * Len(render_layers))
    /\ (pc = "frame" ~> pc = "done")

\* C28: render_spiral has returned from a call with two layers whose start
\* index has more frames on one side than on the other, and at least one on
\* each
C28_Witness ==
    /\ pc = "done"
    /\ Len(render_layers) = 2
    /\ start_ind > 0 /\ start_ind < seq_len - 1
    /\ start_ind # seq_len - start_ind
    /\ Len(rendered) = 2 * seq_len


-----------------------------------------------------------------------------
(* Properties of the selected layer *)

\* the selected object is the object the layer set holds under its id
SelectedIsMember ==
    \E i \in 1 .. Len(meme_template) :
        /\ meme_template[i].id = selected.id
        /\ meme_template[i].obj = selected.obj

\* C29: after any add, delete, select and load the selected layer is the
\* object the layer set stores under the selected layer's id; add selects
\* the object it made, delete of one of several layers and the load of a
\* document select the first layer in listing order; a Load that finds no
\* file or no document, and the slider, leave the layers and the selection
C29_SelectedLayerIsMember ==
    /\ []SelectedIsMember
    /\ [][/\ ui_last'.op = "add" =>
                /\ selected'.id = TemplateId(Len(meme_template) + 1)
                /\ selected'.obj \notin {meme_template[i].obj : i \in 1 .. Len(meme_template)}
          /\ (ui_last'.op = "delete" /\ Len(meme_template) > 1) =>
                selected' = meme_template'[1]
          /\ ui_last'.op = "load" =>
                /\ selected' = meme_template'[1]
                /\ selected'.obj \notin {meme_template[i].obj : i \in 1 .. Len(meme_template)}
          /\ ui_last'.op \in {"open", "no file", "frame"} =>
                /\ selected' = selected
                /\ meme_template' = meme_template]_vars

\* C29: add was clicked when the id "Text " + (count + 1) was already taken:
\* the count stayed, the object under that id was replaced by the one add
\* made, and that object is the selected one
C29_Witness ==
    /\ ui_last.op = "add"
    /\ Len(meme_template) = ui_last.count_before
    /\ selected.id = TemplateId(ui_last.count_before + 1)
    /\ SelectedIsMember


-----------------------------------------------------------------------------
(* Properties of empty slices *)

\* the slices of gif_seq that select no frame: s[k:k] for every k up to the
\* length, and s[len:]
EmptyRanges ==
    {<<k, k>> : k \in 0 .. Len(gif_seq.frames_array)}
        \cup {<<Len(gif_seq.frames_array), Len(gif_seq.frames_array) + 1>>}

\* C30 (as stated): a slice of s that selects no frame returns a sequence of
\* length 0
C30_EmptySliceIsEmptySequence ==
    \A range \in EmptyRanges :
        LET r == getitem_slice(gif_seq, range[1], range[2])
        IN  /\ r.raised = ""
            /\ Len(Val(r.sequence).frames_array) = 0
            /\ Len(Val(r.sequence).durations_array) = 0

\* C30 (what the code does): a slice of s that selects no frame raises
\* ValueError and returns no sequence
C30_EmptySliceRaises ==
    \A range \in EmptyRanges :
        LET r == getitem_slice(gif_seq, range[1], range[2])
        IN  r.raised = "ValueError" /\ r.sequence = None

====
